---- MODULE Spec2Model ----
(***************************************************************************)
(* Model of the harumiki smart-farm time-series core:                      *)
(*   - update_compare_data (views.py): phased, bounded, time-limited       *)
(*     fan-out of series fetches and assembly of the result map            *)
(***************************************************************************)
EXTENDS Integers, Sequences, FiniteSets, TLC

(***************************************************************************)
(* Bounds of the model                                                     *)
(***************************************************************************)
\* number of non-critical entries of all_sensor_queries that are modelled
NumOther == 2

\* longest series given to apply_smart_sampling on its own
MaxLen == 6

\* largest target_points given to apply_smart_sampling on its own
MaxTarget == 4

\* number of get_history_val_optimized calls followed for one cache key
MaxCalls == 2

\* longest list of sensor ids passed to get_multiple_sensors_data
MaxRequested == 3

\* the sensor ids a caller may request
SensorIdPool == {"PM25_R1", "EC"}

(***************************************************************************)
(* update_compare_data: the query lists                                    *)
(***************************************************************************)
\* A query is [key |-> logical series key, src |-> index of the query].
\* critical_queries: five entries with distinct keys (views.py 1494-1501).
critical_queries ==
    << [key |-> "pm_GH1"], [key |-> "pm_GH2"], [key |-> "pm_outside"],
       [key |-> "ECWM"], [key |-> "TempWM"] >>

\* the entries appended to critical_queries; the source list repeats the key
\* "TempWM" of the critical list (views.py 1500 and 1564)
other_pool ==
    << [key |-> "TempWM"], [key |-> "CO2_Farm1"], [key |-> "CO2_Farm2"],
       [key |-> "UV_FARM1"], [key |-> "UV_FARM2"], [key |-> "LUX_FARM1"],
       [key |-> "LUX_FARM2"], [key |-> "ECWP"] >>

all_sensor_queries == critical_queries \o SubSeq(other_pool, 1, NumOther)

expected_keys == { all_sensor_queries[i].key : i \in 1..Len(all_sensor_queries) }

\* ThreadPoolExecutor(max_workers=4) of the critical phase
CriticalWorkers == 4
\* ThreadPoolExecutor(max_workers=3) of each later batch
BatchWorkers == 3
\* batch_size = 6
batch_size == 6

EMPTY == "empty"        \* {'datetimes': [], 'values': []}
FETCHED == "fetched"    \* the value returned by get_history_val_optimized

VARIABLES
    phase,              \* "critical", "batch", "fill", "returned"
    context_history,    \* the result map: a function from the keys present to their value
    remaining_queries,  \* list computed after the critical phase
    batch_i,            \* loop variable i of the batch loop
    future_to_sensor,   \* keys of the futures of the current pool, in submission order
    fstate,             \* state of each future of the current pool
    collected,          \* futures already yielded by as_completed
    pc,                 \* "collect" (as_completed loop), "shutdown" (leaving `with`), "idle"
    cancel_called,      \* futures on which the timeout handler called cancel()
    max_workers         \* size of the current pool

\* SensorDataService.get_multiple_sensors_data (services.py)
VARIABLES
    sensor_ids,         \* the requested sensor ids, in submission order
    results,            \* the result map built by the collection loop
    m_fstate,           \* state of the future of each requested id
    m_collected,        \* futures already yielded by as_completed
    m_pc,               \* "collect", "shutdown", "returned", "raised", "idle"
    m_timeout           \* TRUE once as_completed has raised TimeoutError

multiVars == << sensor_ids, results, m_fstate, m_collected, m_pc, m_timeout >>

\* apply_smart_sampling (views.py), applied to one series
VARIABLES
    s_data,             \* the series given: [values, datetimes]
    s_target,           \* target_points
    s_out,              \* the series returned
    s_pc                \* "input", "sampled", "idle"

sampleVars == << s_data, s_target, s_out, s_pc >>

\* get_history_val_optimized (views.py) on one (sensor, value key, dates)
VARIABLES
    upstream,           \* what the sensor API holds for the requested range
    cache,              \* django cache entry of the cache key: << >> or << result >>
    r_args,             \* [aggregate, max_points] of the last call
    r_result,           \* what the last call returned
    r_interval,         \* bucket width chosen by the last call (0: none chosen)
    r_hit,              \* TRUE when the last call was answered from the cache
    r_calls             \* number of calls made

readVars == << upstream, cache, r_args, r_result, r_interval, r_hit, r_calls >>

fetchVars == << phase, context_history, remaining_queries, batch_i,
                future_to_sensor, fstate, collected, pc, cancel_called,
                max_workers >>

\* the tiered storage and the aggregation runs (models.py, services.py
\* AggregationService, tasks.py, management/commands/migrate_data.py)
VARIABLES
    realtime,    \* RealtimeData: the raw samples
    recent,      \* RecentData: the 5-minute rows
    historical,  \* HistoricalData: the hourly rows
    archive,     \* ArchiveData: the daily rows
    runs         \* the aggregation runs, each with its AggregationJob

aggVars == << realtime, recent, historical, archive, runs >>

\* aggregate_sensor_data (utils/data_aggregation.py), applied to one series
VARIABLES
    a_data,      \* the series given: [values, datetimes]
    a_days,      \* date_range_days
    a_interval,  \* interval_minutes once determined (0: not yet)
    a_out,       \* the series returned
    a_pc         \* "input", "returned", "idle"

resampleVars == << a_data, a_days, a_interval, a_out, a_pc >>

\* AggregationService.calculate_dli (services.py) and its caller
\* calculate_dli_values (views_optimized.py), for one sensor id and date
VARIABLES
    d_found,     \* TRUE when an active ppfd sensor has the id
    d_rows,      \* the RecentData rows of the sensor on the date
    d_dli,       \* what calculate_dli returned: << >> for None, << v >> for v
    d_context,   \* the value calculate_dli_values puts in the context
    d_pc         \* "input", "returned", "idle"

dliVars == << d_found, d_rows, d_dli, d_context, d_pc >>

\* APIDataService.fetch_latest_data and fetch_historical_data (services.py)
\* with sync_historical_sensor_data (tasks.py), on one response of the sensor
\* API for one sensor
VARIABLES
    u_sensor,    \* the Sensor: calibration and the range of its type
    u_path,      \* "latest" or "historical"
    u_result,    \* data["result"]: the records of the response
    u_points,    \* the data points the fetch returned
    u_stored,    \* the RealtimeData rows the task created, in order
    u_raised,    \* TRUE when the call ended with an exception
    u_pc         \* "input", "returned", "idle"

ingestVars == << u_sensor, u_path, u_result, u_points, u_stored, u_raised, u_pc >>

\* APIDataService.sync_latest_data (services.py) for one sensor, run by
\* several workers at once
VARIABLES
    l_now,        \* timezone.now(), in ticks
    l_syncs,      \* the runs: where each is and the api_data it fetched
    l_latest,     \* the LatestSensorValue row of the sensor: << >> or << row >>
    l_last_seen   \* Sensor.last_seen (0: None)

latestVars == << l_now, l_syncs, l_latest, l_last_seen >>

\* the exception handling of the aggregation entry points (tasks.py,
\* Command.aggregate_5min_data of migrate_data.py) around their AggregationJob
VARIABLES
    j_jobs,      \* the AggregationJob rows, in creation order
    j_log,       \* for every job: what happened while its run lasted
    j_run        \* the task or command that runs

jobVars == << j_jobs, j_log, j_run >>

\* one call of get_history_val (views.py), request by request
VARIABLES
    g_name_value,   \* the key read from every record's data
    g_attempt,      \* attempt of "for attempt in range(max_retries)"
    g_history,      \* the outcome of every requests.get so far, in order
    g_sleeps,       \* number of time.sleep(1) calls so far
    g_result,       \* the value returned
    g_pc

retryVars == << g_name_value, g_attempt, g_history, g_sleeps, g_result, g_pc >>

\* the order in which the aggregations of the three tiers run: the periodic
\* tasks, Command.handle of migrate_data and full_data_pipeline
VARIABLES
    o_mode,     \* "scheduled", "migrate_data" or "full_data_pipeline"
    o_now,      \* the clock, in 5-minute slots
    o_base,     \* every window before this slot was aggregated earlier
    o_plan,     \* the aggregations a sequence has still to call, in order
    o_tasks     \* the aggregations dispatched so far and how far each got

orderVars == << o_mode, o_now, o_base, o_plan, o_tasks >>

\* SensorDataService.get_historical_data (services.py) on one sensor and range
VARIABLES
    h_rows,         \* avg_value of the rows of the range, ordered by timestamp
    h_max_points,   \* the argument max_points
    h_values,       \* 'values' of the result
    h_pc

histVars == << h_rows, h_max_points, h_values, h_pc >>

\* determine_aggregation_interval (utils/data_aggregation.py) on one input
VARIABLES
    p_points,     \* data_points
    p_days,       \* date_range_days
    p_interval,   \* the interval returned, in minutes (0: not yet called)
    p_pc

policyVars == << p_points, p_days, p_interval, p_pc >>

\* AggregationService.aggregate_to_recent_data (services.py) over one window
\* that may cross midnight, on an empty RecentData table
VARIABLES
    w_start,    \* start_time, in minutes since midnight of day 0
    w_end,      \* end_time
    w_raw,      \* the RealtimeData rows
    w_recent,   \* the RecentData rows
    w_pc

windowVars == << w_start, w_end, w_raw, w_recent, w_pc >>

vars == << fetchVars, multiVars, sampleVars, readVars, aggVars, resampleVars,
           dliVars, ingestVars, latestVars, jobVars, retryVars, orderVars,
           histVars, policyVars, windowVars >>

\* the variables of the other components, left alone by a component's steps
notFetch == << multiVars, sampleVars, readVars, aggVars, resampleVars,
               dliVars, ingestVars, latestVars, jobVars, retryVars, orderVars,
               histVars, policyVars, windowVars >>
notMulti == << fetchVars, sampleVars, readVars, aggVars, resampleVars,
               dliVars, ingestVars, latestVars, jobVars, retryVars, orderVars,
               histVars, policyVars, windowVars >>
notSample == << fetchVars, multiVars, readVars, aggVars, resampleVars,
                dliVars, ingestVars, latestVars, jobVars, retryVars,
                orderVars, histVars, policyVars, windowVars >>
notRead == << fetchVars, multiVars, sampleVars, aggVars, resampleVars,
              dliVars, ingestVars, latestVars, jobVars, retryVars, orderVars,
              histVars, policyVars, windowVars >>
notAgg == << fetchVars, multiVars, sampleVars, readVars, resampleVars,
             dliVars, ingestVars, latestVars, jobVars, retryVars, orderVars,
             histVars, policyVars, windowVars >>
notResample == << fetchVars, multiVars, sampleVars, readVars, aggVars,
                  dliVars, ingestVars, latestVars, jobVars, retryVars,
                  orderVars, histVars, policyVars, windowVars >>
notDli == << fetchVars, multiVars, sampleVars, readVars, aggVars,
             resampleVars, ingestVars, latestVars, jobVars, retryVars,
             orderVars, histVars, policyVars, windowVars >>
notIngest == << fetchVars, multiVars, sampleVars, readVars, aggVars,
                resampleVars, dliVars, latestVars, jobVars, retryVars,
                orderVars, histVars, policyVars, windowVars >>
notLatest == << fetchVars, multiVars, sampleVars, readVars, aggVars,
                resampleVars, dliVars, ingestVars, jobVars, retryVars,
                orderVars, histVars, policyVars, windowVars >>
notJob == << fetchVars, multiVars, sampleVars, readVars, aggVars,
             resampleVars, dliVars, ingestVars, latestVars, retryVars,
             orderVars, histVars, policyVars, windowVars >>
notRetry == << fetchVars, multiVars, sampleVars, readVars, aggVars,
               resampleVars, dliVars, ingestVars, latestVars, jobVars,
               orderVars, histVars, policyVars, windowVars >>
notOrder == << fetchVars, multiVars, sampleVars, readVars, aggVars,
               resampleVars, dliVars, ingestVars, latestVars, jobVars,
               retryVars, histVars, policyVars, windowVars >>
notHist == << fetchVars, multiVars, sampleVars, readVars, aggVars,
              resampleVars, dliVars, ingestVars, latestVars, jobVars,
              retryVars, orderVars, policyVars, windowVars >>
notPolicy == << fetchVars, multiVars, sampleVars, readVars, aggVars,
                resampleVars, dliVars, ingestVars, latestVars, jobVars,
                retryVars, orderVars, histVars, windowVars >>
notWindow == << fetchVars, multiVars, sampleVars, readVars, aggVars,
                resampleVars, dliVars, ingestVars, latestVars, jobVars,
                retryVars, orderVars, histVars, policyVars >>

(***************************************************************************)
(* update_compare_data: helpers                                            *)
(***************************************************************************)
\* context_history[key] = value
DictSet(d, k, v) == [x \in (DOMAIN d) \cup {k} |-> IF x = k THEN v ELSE d[x]]

Futures == 1..Len(future_to_sensor)

\* Future.done(): finished or cancelled
FutureDone(i) == fstate[i] \in {"done", "cancelled"}

Running == { i \in Futures : fstate[i] = "running" }
Pending == { i \in Futures : fstate[i] = "pending" }

RECURSIVE SelectSeqNotIn(_, _)
\* [q for q in qs if q[0] not in d]
SelectSeqNotIn(qs, d) ==
    IF qs = << >> THEN << >>
    ELSE IF Head(qs).key \in DOMAIN d
         THEN SelectSeqNotIn(Tail(qs), d)
         ELSE << Head(qs) >> \o SelectSeqNotIn(Tail(qs), d)

Min2(a, b) == IF a < b THEN a ELSE b

\* a batch that takes all that is left of the list
BatchAt_Whole(rq, i) == SubSeq(rq, i + 1, Len(rq))

\* remaining_queries[i:i + batch_size]
BatchAt(rq, i) == SubSeq(rq, i + 1, Min2(i + batch_size, Len(rq)))

\* with ThreadPoolExecutor(max_workers=w) as executor: submit every query
SubmitAll(qs, w) ==
    /\ future_to_sensor' = [i \in 1..Len(qs) |-> qs[i].key]
    /\ fstate' = [i \in 1..Len(qs) |-> "pending"]
    /\ collected' = {}
    /\ cancel_called' = {}
    /\ max_workers' = w
    /\ pc' = "collect"

NoPool ==
    /\ future_to_sensor' = << >>
    /\ fstate' = << >>
    /\ collected' = {}
    /\ cancel_called' = {}
    /\ max_workers' = 0
    /\ pc' = "idle"

(***************************************************************************)
(* update_compare_data: the state machine                                  *)
(***************************************************************************)
FetchInit ==
    /\ phase = "critical"
    /\ context_history = << >>
    /\ remaining_queries = << >>
    /\ batch_i = 0
    /\ future_to_sensor = [i \in 1..Len(critical_queries) |-> critical_queries[i].key]
    /\ fstate = [i \in 1..Len(critical_queries) |-> "pending"]
    /\ collected = {}
    /\ cancel_called = {}
    /\ max_workers = CriticalWorkers
    /\ pc = "collect"

FetchIdle ==
    /\ phase = "idle"
    /\ context_history = << >>
    /\ remaining_queries = << >>
    /\ batch_i = 0
    /\ future_to_sensor = << >>
    /\ fstate = << >>
    /\ collected = {}
    /\ cancel_called = {}
    /\ max_workers = 0
    /\ pc = "idle"

\* a pool that starts a thread for every work item submitted
WorkerStart_Unbounded ==
    /\ pc \in {"collect", "shutdown"}
    /\ Pending # {}
    /\ LET i == CHOOSE p \in Pending : \A q \in Pending : p <= q
       IN fstate' = [fstate EXCEPT ![i] = "running"]
    /\ UNCHANGED << phase, context_history, remaining_queries, batch_i,
                    future_to_sensor, collected, pc, cancel_called, max_workers >>
    /\ UNCHANGED notFetch

\* a worker thread of the pool takes the oldest queued work item
WorkerStart ==
    /\ pc \in {"collect", "shutdown"}
    /\ Pending # {}
    /\ Cardinality(Running) < max_workers
    /\ LET i == CHOOSE p \in Pending : \A q \in Pending : p <= q
       IN fstate' = [fstate EXCEPT ![i] = "running"]
    /\ UNCHANGED << phase, context_history, remaining_queries, batch_i,
                    future_to_sensor, collected, pc, cancel_called, max_workers >>
    /\ UNCHANGED notFetch

\* get_history_val_optimized ends (by returning or by raising) in a worker thread
WorkerFinish ==
    /\ \E i \in Running : fstate' = [fstate EXCEPT ![i] = "done"]
    /\ UNCHANGED << phase, context_history, remaining_queries, batch_i,
                    future_to_sensor, collected, pc, cancel_called, max_workers >>
    /\ UNCHANGED notFetch

\* one iteration of `for future in as_completed(...)`: future.result() returns
\* the fetched value or raises what the fetch raised
Collect ==
    /\ pc = "collect"
    /\ \E i \in Futures \ collected : \E raised \in BOOLEAN :
          /\ fstate[i] = "done"
          /\ context_history' = DictSet(context_history, future_to_sensor[i],
                                        IF raised THEN EMPTY ELSE FETCHED)
          /\ collected' = collected \cup {i}
          /\ pc' = IF collected' = Futures THEN "shutdown" ELSE "collect"
    /\ UNCHANGED << phase, remaining_queries, batch_i, future_to_sensor, fstate,
                    cancel_called, max_workers >>
    /\ UNCHANGED notFetch

\* Future.cancel(): only a future that has not started is cancelled
Cancel(st) == IF st = "pending" THEN "cancelled" ELSE st

\* as_completed raises TimeoutError while futures are still to be yielded;
\* `except TimeoutError` catches it (the builtin is concurrent.futures.TimeoutError)
\* and runs `for future in future_to_sensor: if not future.done(): ...`
Timeout ==
    /\ pc = "collect"
    /\ collected # Futures
    /\ LET notdone == { i \in Futures : ~FutureDone(i) }
       IN /\ fstate' = [i \in Futures |->
                          IF i \in notdone THEN Cancel(fstate[i]) ELSE fstate[i]]
          /\ context_history' =
                [k \in (DOMAIN context_history) \cup { future_to_sensor[i] : i \in notdone } |->
                    IF \E i \in notdone : future_to_sensor[i] = k
                    THEN EMPTY ELSE context_history[k]]
          /\ cancel_called' = notdone
    /\ pc' = "shutdown"
    /\ UNCHANGED << phase, remaining_queries, batch_i, future_to_sensor,
                    collected, max_workers >>
    /\ UNCHANGED notFetch

\* leaving the `with` block: executor.shutdown(wait=True) returns once no work
\* item is queued or running; then the next phase begins
PoolExit ==
    /\ pc = "shutdown"
    /\ Running = {}
    /\ Pending = {}
    /\ LET rq == IF phase = "critical"
                 THEN SelectSeqNotIn(all_sensor_queries, context_history)
                 ELSE remaining_queries
           i  == IF phase = "critical" THEN 0 ELSE batch_i + batch_size
       IN /\ remaining_queries' = rq
          /\ batch_i' = i
          /\ IF i < Len(rq)
             THEN /\ phase' = "batch"
                  /\ SubmitAll(BatchAt(rq, i), BatchWorkers)
             ELSE /\ phase' = "fill"
                  /\ NoPool
    /\ UNCHANGED context_history
    /\ UNCHANGED notFetch

\* the result map returned without the default-fill pass
FillDefaults_Skipped(d) == d

\* "Ensure all expected datasets exist with at least empty data", then return
FillDefaults(d) ==
    [k \in (DOMAIN d) \cup expected_keys |-> IF k \in DOMAIN d THEN d[k] ELSE EMPTY]

Return ==
    /\ phase = "fill"
    /\ context_history' = FillDefaults(context_history)
    /\ phase' = "returned"
    /\ UNCHANGED << remaining_queries, batch_i, future_to_sensor, fstate,
                    collected, pc, cancel_called, max_workers >>
    /\ UNCHANGED notFetch

FetchNext ==
    \/ WorkerStart
    \/ WorkerFinish
    \/ Collect
    \/ Timeout
    \/ PoolExit
    \/ Return

(***************************************************************************)
(* get_multiple_sensors_data: the state machine                            *)
(***************************************************************************)
\* ThreadPoolExecutor(max_workers=5)
MultiWorkers == 5

MultiFutures == 1..Len(sensor_ids)
MultiRunning == { i \in MultiFutures : m_fstate[i] = "running" }
MultiPending == { i \in MultiFutures : m_fstate[i] = "pending" }

MultiIdle ==
    /\ sensor_ids = << >>
    /\ results = << >>
    /\ m_fstate = << >>
    /\ m_collected = {}
    /\ m_pc = "idle"
    /\ m_timeout = FALSE

\* the state after every get_historical_data call has been submitted
MultiInit ==
    /\ sensor_ids \in UNION { [1..n -> SensorIdPool] : n \in 0..MaxRequested }
    /\ results = << >>
    /\ m_fstate = [i \in 1..Len(sensor_ids) |-> "pending"]
    /\ m_collected = {}
    /\ m_pc = IF Len(sensor_ids) = 0 THEN "shutdown" ELSE "collect"
    /\ m_timeout = FALSE

MultiWorkerStart ==
    /\ m_pc \in {"collect", "shutdown"}
    /\ MultiPending # {}
    /\ Cardinality(MultiRunning) < MultiWorkers
    /\ LET i == CHOOSE p \in MultiPending : \A q \in MultiPending : p <= q
       IN m_fstate' = [m_fstate EXCEPT ![i] = "running"]
    /\ UNCHANGED << sensor_ids, results, m_collected, m_pc, m_timeout >>
    /\ UNCHANGED notMulti

\* get_historical_data ends (by returning or by raising) in a worker thread
MultiWorkerFinish ==
    /\ \E i \in MultiRunning : m_fstate' = [m_fstate EXCEPT ![i] = "done"]
    /\ UNCHANGED << sensor_ids, results, m_collected, m_pc, m_timeout >>
    /\ UNCHANGED notMulti

\* one iteration of `for future in as_completed(future_to_sensor, timeout=30)`
MultiCollect ==
    /\ m_pc = "collect"
    /\ \E i \in MultiFutures \ m_collected : \E raised \in BOOLEAN :
          /\ m_fstate[i] = "done"
          /\ results' = DictSet(results, sensor_ids[i],
                                IF raised THEN EMPTY ELSE FETCHED)
          /\ m_collected' = m_collected \cup {i}
          /\ m_pc' = IF m_collected' = MultiFutures THEN "shutdown" ELSE "collect"
    /\ UNCHANGED << sensor_ids, m_fstate, m_timeout >>
    /\ UNCHANGED notMulti

\* as_completed raises TimeoutError while futures are still to be yielded;
\* no handler encloses the loop, so the exception leaves the `with` block
MultiTimeout ==
    /\ m_pc = "collect"
    /\ m_collected # MultiFutures
    /\ m_timeout' = TRUE
    /\ m_pc' = "shutdown"
    /\ UNCHANGED << sensor_ids, results, m_fstate, m_collected >>
    /\ UNCHANGED notMulti

\* leaving the `with` block: shutdown(wait=True) lets every submitted call
\* end, then the function returns results or the TimeoutError reaches the caller
MultiExit ==
    /\ m_pc = "shutdown"
    /\ MultiRunning = {}
    /\ MultiPending = {}
    /\ m_pc' = IF m_timeout THEN "raised" ELSE "returned"
    /\ UNCHANGED << sensor_ids, results, m_fstate, m_collected, m_timeout >>
    /\ UNCHANGED notMulti

MultiNext ==
    \/ MultiWorkerStart
    \/ MultiWorkerFinish
    \/ MultiCollect
    \/ MultiTimeout
    \/ MultiExit

(***************************************************************************)
(* apply_smart_sampling                                                    *)
(***************************************************************************)
\* series values are fixed-point numbers with two decimals: 21.00 is 2100
Scale == 100

\* the missing-data value -1 of get_history_val
SENTINEL == (0 - 1) * Scale

Max2(a, b) == IF a > b THEN a ELSE b

\* a list comprehension: the list with the elements f[1], ..., f[n]
ListOf(f) == f \o << >>

\* the indices of the set from the highest to the lowest
SortedSeq_Descending(S, total) ==
    SelectSeq([i \in 1..total |-> total - i], LAMBDA x : x \in S)

\* sorted(indices) for a set of indices below total: the indices 0..total-1,
\* in order, that are in the set
SortedSeq(S, total) ==
    SelectSeq([i \in 1..total |-> i - 1], LAMBDA x : x \in S)

\* the indices kept when only every interval-th point is taken
SampledIndices_StrideOnly(total_points, target_points) ==
    LET interval == Max2(1, total_points \div target_points)
    IN { i \in 0..(total_points - 1) : i % interval = 0 }

\* sampled_indices (0-based): first, last and every interval-th index
SampledIndices(total_points, target_points) ==
    LET interval == Max2(1, total_points \div target_points)
    IN {0, total_points - 1} \cup { i \in 0..(total_points - 1) : i % interval = 0 }

apply_smart_sampling(data, target_points) ==
    IF Len(data.values) <= target_points
    THEN data
    ELSE LET idx == SortedSeq(SampledIndices(Len(data.values), target_points), Len(data.values))
         IN [ values    |-> ListOf([k \in 1..Len(idx) |-> data.values[idx[k] + 1]]),
              datetimes |-> IF data.datetimes = << >> THEN << >>
                            ELSE ListOf([k \in 1..Len(idx) |-> data.datetimes[idx[k] + 1]]) ]

SampleIdle ==
    /\ s_data = [values |-> << >>, datetimes |-> << >>]
    /\ s_target = 1
    /\ s_out = [values |-> << >>, datetimes |-> << >>]
    /\ s_pc = "idle"

\* a series as get_history_val returns it: one value per datetime, datetimes
\* distinct and ascending
SampleInit ==
    /\ \E n \in 0..MaxLen : \E vs \in [1..n -> {SENTINEL, 21 * Scale, 22 * Scale}] :
          s_data = [values |-> vs, datetimes |-> [i \in 1..n |-> 10 * i]]
    /\ s_target \in 1..MaxTarget
    /\ s_out = [values |-> << >>, datetimes |-> << >>]
    /\ s_pc = "input"

SampleCall ==
    /\ s_pc = "input"
    /\ s_out' = apply_smart_sampling(s_data, s_target)
    /\ s_pc' = "sampled"
    /\ UNCHANGED << s_data, s_target >>
    /\ UNCHANGED notSample

SampleNext == SampleCall

(***************************************************************************)
(* utils/data_aggregation.py                                               *)
(***************************************************************************)
\* the policy with "< 3 days" for the very short ranges
determine_aggregation_interval_Below3(data_points, date_range_days) ==
    IF date_range_days < 3 THEN (IF data_points > 2000 THEN 15 ELSE 5)
    ELSE IF date_range_days <= 7 THEN (IF data_points > 5000 THEN 30 ELSE 15)
    ELSE IF date_range_days <= 31
         THEN (IF data_points > 10000 THEN 60
               ELSE IF data_points > 5000 THEN 30 ELSE 15)
    ELSE (IF data_points > 10000 THEN 120 ELSE 60)

\* the policy with the coarse bucket for every range longer than 31 days
determine_aggregation_interval_Coarse(data_points, date_range_days) ==
    IF date_range_days <= 3 THEN (IF data_points > 2000 THEN 15 ELSE 5)
    ELSE IF date_range_days <= 7 THEN (IF data_points > 5000 THEN 30 ELSE 15)
    ELSE IF date_range_days <= 31
         THEN (IF data_points > 10000 THEN 60
               ELSE IF data_points > 5000 THEN 30 ELSE 15)
    ELSE 120

determine_aggregation_interval(data_points, date_range_days) ==
    IF date_range_days <= 3 THEN (IF data_points > 2000 THEN 15 ELSE 5)
    ELSE IF date_range_days <= 7 THEN (IF data_points > 5000 THEN 30 ELSE 15)
    ELSE IF date_range_days <= 31
         THEN (IF data_points > 10000 THEN 60
               ELSE IF data_points > 5000 THEN 30 ELSE 15)
    ELSE (IF data_points > 10000 THEN 120 ELSE 60)

\* "Skip aggregation if data is already small": len(data['values']) < 500
SkipBelow == 500

RECURSIVE SumOver(_, _)
\* sum of f[i] for i in S
SumOver(f, S) ==
    IF S = {} THEN 0
    ELSE LET i == CHOOSE x \in S : TRUE
         IN f[i] + SumOver(f, S \ {i})

\* round(sum / count) to the nearest fixed-point number, ties to even
RoundDiv(sum, count) ==
    LET q == sum \div count
        r == sum - q * count
    IN IF 2 * r < count THEN q
       ELSE IF 2 * r > count THEN q + 1
       ELSE IF q % 2 = 0 THEN q ELSE q + 1

SetMin(S) == CHOOSE x \in S : \A y \in S : x <= y
SetMax(S) == CHOOSE x \in S : \A y \in S : x >= y

\* the try block of aggregate_sensor_data: drop_duplicates(keep='last'), sentinel
\* to NaN, resample(interval).mean(), round(2), fillna(-1).  Datetimes are
\* minutes; buckets are aligned to multiples of the interval.
Resample(data, interval_minutes) ==
    LET n    == Len(data.values)
        kept == { i \in 1..n : \A j \in (i + 1)..n : data.datetimes[j] # data.datetimes[i] }
        bk   == ListOf([i \in 1..n |-> data.datetimes[i] \div interval_minutes])
        b0   == SetMin({ bk[i] : i \in kept })
        b1   == SetMax({ bk[i] : i \in kept })
        occ  == { bk[i] : i \in { k \in kept : data.values[k] # SENTINEL } }
    IN [ datetimes |-> ListOf([k \in 1..(b1 - b0 + 1) |-> (b0 + k - 1) * interval_minutes]),
         values    |-> ListOf([k \in 1..(b1 - b0 + 1) |->
                          IF (b0 + k - 1) \in occ
                          THEN LET m == { i \in kept : bk[i] = b0 + k - 1
                                                      /\ data.values[i] # SENTINEL }
                               IN RoundDiv(SumOver(data.values, m), Cardinality(m))
                          ELSE SENTINEL]) ]

\* the interval chosen when interval_minutes is None and date_range_days is given
aggregate_sensor_data(data, date_range_days) ==
    IF Len(data.values) = 0 THEN data
    ELSE IF Len(data.values) < SkipBelow THEN data
    ELSE Resample(data, determine_aggregation_interval(Len(data.values), date_range_days))

\* (end - start).days + 1
calculate_date_range_days(range_days) == range_days + 1

\* the series aggregate_sensor_data is followed on have SkipBelow - 1 to
\* SkipBelow + MaxExtra points
MaxExtra == 1

\* the values of a series repeat one of these patterns: readings, readings
\* with missing values, missing values only, readings below zero
ValuePatterns ==
    << << 21 * Scale, 22 * Scale, 23 * Scale >>,
       << SENTINEL, 21 * Scale >>,
       << SENTINEL >>,
       << (0 - 2) * Scale, 0 >>,
       << (0 - 3) * Scale, 1 * Scale, 2 * Scale >> >>

\* a series of n points, one every step minutes from minute 600 on, with a
\* stretch of gap minutes without points after the 100th point and, when dup,
\* the last datetime sent twice
SeriesOf(n, step, pat, gap, dup) ==
    LET at(i) == 600 + (i - 1) * step + (IF i > 100 THEN gap ELSE 0)
    IN [ values    |-> ListOf([i \in 1..n |-> pat[((i - 1) % Len(pat)) + 1]]),
         datetimes |-> ListOf([i \in 1..n |->
                          IF dup /\ i = n /\ n > 1 THEN at(n - 1) ELSE at(i)]) ]

ResampleIdle ==
    /\ a_data = [values |-> << >>, datetimes |-> << >>]
    /\ a_days = 0
    /\ a_interval = 0
    /\ a_out = [values |-> << >>, datetimes |-> << >>]
    /\ a_pc = "idle"

ResampleInit ==
    /\ \E n \in (SkipBelow - 1)..(SkipBelow + MaxExtra) :
       \E step \in {1, 7} :
       \E p \in 1..Len(ValuePatterns) :
       \E gap \in {0, 180} :
       \E dup \in BOOLEAN :
          a_data = SeriesOf(n, step, ValuePatterns[p], gap, dup)
    /\ a_days \in {2, 40}
    /\ a_interval = 0
    /\ a_out = [values |-> << >>, datetimes |-> << >>]
    /\ a_pc = "input"

\* aggregate_sensor_data(data, date_range_days=a_days)
ResampleCall ==
    /\ a_pc = "input"
    /\ a_interval' = determine_aggregation_interval(Len(a_data.values), a_days)
    /\ a_out' = aggregate_sensor_data(a_data, a_days)
    /\ a_pc' = "returned"
    /\ UNCHANGED << a_data, a_days >>
    /\ UNCHANGED notResample

ResampleNext == ResampleCall

(***************************************************************************)
(* get_history_val_optimized                                               *)
(***************************************************************************)
\* max_points of the callers (views.py 1611, 1657, 1937)
MaxPointsUsed == {250, 400, 500}

\* "Apply aggregation for medium-large datasets": data_length > 100
AggregateAbove == 100

\* value of the i-th record of the upstream series
UpValue(up, i) ==
    IF (i + up.seed) % 7 = 3 THEN SENTINEL ELSE (20 + ((i + up.seed) % 5)) * Scale

\* datetime (minutes from the start of the range) of the i-th record: the
\* records are spread evenly, one every up.num / up.den minutes
UpTime(up, i) == ((i - 1) * up.num) \div up.den

\* get_history_val: the series of the upstream records, or the empty series
\* when the request fails
get_history_val(up) ==
    IF up.ok
    THEN [ values    |-> ListOf([i \in 1..up.n |-> UpValue(up, i)]),
           datetimes |-> ListOf([i \in 1..up.n |-> UpTime(up, i)]) ]
    ELSE [ values |-> << >>, datetimes |-> << >> ]

\* the series that reaches the aggregation step
SampledData(raw_data, max_points) ==
    IF Len(raw_data.values) > max_points
    THEN apply_smart_sampling(raw_data, max_points)
    ELSE raw_data

\* the rest of get_history_val_optimized after a cache miss, from the
\* sampled series
ComputeOptimized(raw_data, range_days, aggregate) ==
    IF Len(raw_data.values) = 0 THEN raw_data
    ELSE IF aggregate /\ Len(raw_data.values) > AggregateAbove
         THEN aggregate_sensor_data(raw_data, calculate_date_range_days(range_days))
         ELSE raw_data

\* the interval determine_aggregation_interval returns inside that call
IntervalChosen(raw_data, range_days, aggregate) ==
    IF aggregate /\ Len(raw_data.values) > AggregateAbove
    THEN determine_aggregation_interval(Len(raw_data.values),
                                        calculate_date_range_days(range_days))
    ELSE 0

NoSeries == [values |-> << >>, datetimes |-> << >>]

ReadIdle ==
    /\ upstream = [ok |-> FALSE, n |-> 0, range_days |-> 0, num |-> 1, den |-> 1, seed |-> 0]
    /\ cache = << >>
    /\ r_args = [aggregate |-> TRUE, max_points |-> 500]
    /\ r_result = NoSeries
    /\ r_interval = 0
    /\ r_hit = FALSE
    /\ r_calls = 0

\* the upstream ranges and record counts followed
UpstreamCases ==
    { [ok |-> FALSE, n |-> 0, range_days |-> 2, num |-> 1, den |-> 1, seed |-> 0] }
    \cup
    { [ok |-> TRUE, n |-> c[1], range_days |-> c[2], num |-> c[3], den |-> c[4], seed |-> e] :
        e \in {0, 1},
        c \in { <<0, 2, 1, 1>>,           \* no record
                <<90, 2, 32, 1>>,         \* 2 days, a record every 32 minutes
                <<300, 30, 144, 1>>,      \* 30 days, every 144 minutes
                <<500, 2, 144, 25>>,      \* 2 days, every 5.76 minutes
                <<700, 30, 432, 7>> } }   \* 30 days, every 61.7 minutes
    \cup
    \* 400 days, 50,000 records, one every 11.52 minutes
    { [ok |-> TRUE, n |-> 50000, range_days |-> 400, num |-> 288, den |-> 25, seed |-> 0] }

ReadInit ==
    /\ upstream \in UpstreamCases
    /\ cache = << >>
    /\ r_args = [aggregate |-> TRUE, max_points |-> 500]
    /\ r_result = NoSeries
    /\ r_interval = 0
    /\ r_hit = FALSE
    /\ r_calls = 0

\* one call of get_history_val_optimized for the cache key
ReadCall ==
    /\ r_calls < MaxCalls
    /\ IF cache # << >>
       THEN /\ \E aggregate \in BOOLEAN : \E max_points \in MaxPointsUsed :
                  r_args' = [aggregate |-> aggregate, max_points |-> max_points]
            /\ r_result' = cache[1]
            /\ r_interval' = 0
            /\ r_hit' = TRUE
            /\ UNCHANGED cache
       ELSE LET fetched == get_history_val(upstream)
            IN \E max_points \in MaxPointsUsed :
                 LET raw_data == SampledData(fetched, max_points)
                 IN \E aggregate \in BOOLEAN :
                      /\ r_args' = [aggregate |-> aggregate, max_points |-> max_points]
                      /\ r_result' = ComputeOptimized(raw_data, upstream.range_days, aggregate)
                      /\ r_interval' = IntervalChosen(raw_data, upstream.range_days, aggregate)
                      /\ r_hit' = FALSE
                      /\ cache' = IF Len(r_result'.values) = 0 THEN << >>
                                  ELSE << r_result' >>
    /\ r_calls' = r_calls + 1
    /\ UNCHANGED upstream
    /\ UNCHANGED notRead

\* the cache entry reaches its time to live (300 or 600 seconds)
CacheExpire ==
    /\ cache # << >>
    /\ cache' = << >>
    /\ UNCHANGED << upstream, r_args, r_result, r_interval, r_hit, r_calls >>
    /\ UNCHANGED notRead

ReadNext ==
    \/ ReadCall
    \/ CacheExpire

(***************************************************************************)
(* Tiered storage and the aggregation runs                                 *)
(***************************************************************************)
\* the most raw samples ingested and the most aggregation runs started
MaxRaw == 3
MaxRuns == 2

\* Sensor.objects.filter(is_active=True)
ActiveSensors == << "PM25_R1" >>

\* A stored float is a fraction in lowest terms; SQL NULL (None) is the
\* fraction with denominator 0.  Timestamps are minutes since midnight of
\* day 0; the samples of one calendar minute share a timestamp.
NULL == [num |-> 0, den |-> 0]

RECURSIVE GCD(_, _)
GCD(a, b) == IF b = 0 THEN a ELSE GCD(b, a % b)

Rat(n, d) == LET g == GCD(n, d) IN [num |-> n \div g, den |-> d \div g]
RatAdd(p, q) == Rat(p.num * q.den + q.num * p.den, p.den * q.den)
RatLeq(p, q) == p.num * q.den <= q.num * p.den

RECURSIVE RatSum(_, _)
\* sum of the fractions x[col] for the rows x of S
RatSum(col, S) ==
    IF S = {} THEN Rat(0, 1)
    ELSE LET x == CHOOSE y \in S : TRUE
         IN RatAdd(x[col], RatSum(col, S \ {x}))

\* the SQL aggregates over a float column: NULLs are skipped, and the result
\* is NULL when no value is left
Avg(col, S) ==
    LET N == { x \in S : x[col] # NULL }
        s == RatSum(col, N)
    IN IF N = {} THEN NULL ELSE Rat(s.num, s.den * Cardinality(N))

Min(col, S) ==
    LET N == { x \in S : x[col] # NULL }
    IN IF N = {} THEN NULL
       ELSE (CHOOSE x \in N : \A y \in N : RatLeq(x[col], y[col]))[col]

Max(col, S) ==
    LET N == { x \in S : x[col] # NULL }
    IN IF N = {} THEN NULL
       ELSE (CHOOSE x \in N : \A y \in N : RatLeq(y[col], x[col]))[col]

\* Sum and Avg over an integer column that is never NULL
Sum(col, S) == SumOver([x \in S |-> x[col]], S)
AvgInt(col, S) == Rat(Sum(col, S), Cardinality(S))

\* Count('id', filter=Q(quality_flag=flag))
CountFlag(S, flag) == Cardinality({ x \in S : x.quality_flag = flag })

\* "value or 0"
OrZero(v) == IF v = NULL THEN Rat(0, 1) ELSE v

\* a RealtimeData record as sync_historical_sensor_data builds it
RealtimeRecord(t, v, flag) ==
    [sensor |-> ActiveSensors[1], timestamp |-> t, processed_value |-> v,
     quality_flag |-> flag]

\* the samples the upstream can deliver: three in the minute 10:00, two in
\* 10:01, one in 10:02, one in the next 5-minute slot and one in the next hour.
\* fetch_historical_data flags a sample good when it has a value, bad when the
\* record has no value for the key and missing when the record has no data.
RawPool ==
    { RealtimeRecord(600, Rat(21, 1), "good"),
      RealtimeRecord(600, Rat(22, 1), "good"),
      RealtimeRecord(600, NULL, "missing"),
      RealtimeRecord(601, Rat(22, 1), "good"),
      RealtimeRecord(601, NULL, "bad"),
      RealtimeRecord(602, NULL, "missing"),
      RealtimeRecord(605, Rat(24, 1), "good"),
      RealtimeRecord(660, Rat(20, 1), "good") }

\* datetime.combine(date, datetime.min.time()) of the day of t
DayStart(t) == (t \div 1440) * 1440
\* timestamp__hour and timestamp__minute
HourOfDay(t) == (t % 1440) \div 60
MinuteOfHour(t) == t % 60
\* TruncHour('timestamp')
TruncHour(t) == (t \div 60) * 60

\* start_time.replace(hour=hour, minute=(minute // 5) * 5, second=0, microsecond=0)
IntervalTimestamp(start_time, hour, minute) ==
    DayStart(start_time) + hour * 60 + (minute \div 5) * 5

\* filter(sensor=sensor, timestamp__gte=start_time, timestamp__lt=end_time)
InWindow(table, sensor, start_time, end_time) ==
    { x \in table : /\ x.sensor = sensor
                    /\ start_time <= x.timestamp
                    /\ x.timestamp < end_time }

\* filter(sensor=sensor, timestamp__date=date)
OfDate(table, sensor, date) ==
    { x \in table : x.sensor = sensor /\ DayStart(x.timestamp) = date }

\* values('timestamp__hour', 'timestamp__minute').annotate(interval_start=
\* TruncMinute('timestamp'), ...): one group for every calendar minute
MinuteGroups(rows) ==
    { { x \in rows : x.timestamp = t } : t \in { x.timestamp : x \in rows } }

\* the RecentData record built from one group of the query (std_deviation, a
\* nullable column no other tier reads, is left out)
RecentRecord(sensor, start_time, g) ==
    LET t == (CHOOSE x \in g : TRUE).timestamp
    IN [sensor          |-> sensor,
        timestamp       |-> IntervalTimestamp(start_time, HourOfDay(t), MinuteOfHour(t)),
        avg_value       |-> Avg("processed_value", g),
        min_value       |-> Min("processed_value", g),
        max_value       |-> Max("processed_value", g),
        sample_count    |-> Cardinality(g),
        good_samples    |-> CountFlag(g, "good"),
        suspect_samples |-> CountFlag(g, "suspect"),
        bad_samples     |-> CountFlag(g, "bad"),
        missing_samples |-> CountFlag(g, "missing")]

recent_records(sensor, start_time, rows) ==
    { RecentRecord(sensor, start_time, g) : g \in MinuteGroups(rows) }

\* annotate(hour=TruncHour('timestamp')).values('hour'): one group for every hour
HourGroups(rows) ==
    { { x \in rows : TruncHour(x.timestamp) = h } :
        h \in { TruncHour(x.timestamp) : x \in rows } }

\* the HistoricalData record migrate_data builds from the 5-minute rows of one
\* hour, were the query built: the columns as the annotations name them, with
\* quality_score = Avg('good_samples') * 100 / Avg('sample_count')
HistoricalRecord(sensor, g) ==
    [sensor        |-> sensor,
     timestamp     |-> TruncHour((CHOOSE x \in g : TRUE).timestamp),
     avg_value     |-> Avg("avg_value", g),
     min_value     |-> Min("min_value", g),
     max_value     |-> Max("max_value", g),
     sample_count  |-> Sum("sample_count", g),
     quality_score |-> OrZero(LET a == AvgInt("good_samples", g)
                                  b == AvgInt("sample_count", g)
                              IN Rat(a.num * 100 * b.den, a.den * b.num))]

hourly_records(sensor, rows) ==
    { HistoricalRecord(sensor, g) : g \in HourGroups(rows) }

\* the ArchiveData row of update_or_create(sensor, timestamp, defaults) from the
\* hourly rows of the day (total_value is None for a sensor that is not PPFD)
ArchiveRecord(sensor, date, rows) ==
    [sensor            |-> sensor,
     timestamp         |-> date,
     avg_value         |-> Avg("avg_value", rows),
     min_value         |-> Min("min_value", rows),
     max_value         |-> Max("max_value", rows),
     sample_count      |-> Sum("sample_count", rows),
     quality_score     |-> OrZero(Avg("quality_score", rows)),
     uptime_percentage |-> OrZero(Avg("quality_score", rows))]

\* unique_together = ['sensor', 'timestamp']
SameKey(a, b) == a.sensor = b.sensor /\ a.timestamp = b.timestamp

\* a table without the unique constraint reports no conflict
Conflicts_Unchecked(table, c) == FALSE

\* the insert of c meets a row with its key
Conflicts(table, c) == \E x \in table : SameKey(x, c)

\* avg_value, min_value and max_value are FloatField() without null=True
NotNullViolated(records) ==
    \E c \in records : c.avg_value = NULL \/ c.min_value = NULL \/ c.max_value = NULL

\* one record for every key of the records
OnePerKey(records) ==
    { n \in SUBSET records :
        \A c \in records : Cardinality({ x \in n : SameKey(x, c) }) = 1 }

\* an insert that replaces the row it conflicts with
bulk_create_Overwrite(table, records) ==
    { { x \in table : ~ \E c \in records : SameKey(x, c) } \cup n :
        n \in OnePerKey(records) }

\* bulk_create(records, ignore_conflicts=True): the tables the insert can
\* leave.  A record whose key is taken is skipped; of several records with one
\* free key the first of the list is kept, and the query fixes no order.
bulk_create(table, records) ==
    { table \cup { c \in n : ~ Conflicts(table, c) } : n \in OnePerKey(records) }

\* update_or_create(sensor=..., timestamp=..., defaults=...)
update_or_create(table, row) ==
    { x \in table : ~ SameKey(x, row) } \cup { row }

RunIds == 1..MaxRuns

\* the aggregation entry points and the windows they are called with: the
\* 5-minute task over two overlapping windows, the hourly task, the daily task
\* and the migrate_data command for day 0
RunChoices ==
    { [kind |-> "aggregate_5min_data",   start_time |-> 600, end_time |-> 610],
      [kind |-> "aggregate_5min_data",   start_time |-> 605, end_time |-> 720],
      [kind |-> "aggregate_hourly_data", start_time |-> 600, end_time |-> 720],
      [kind |-> "aggregate_daily_data",  start_time |-> 0,   end_time |-> 1440],
      [kind |-> "migrate_data",          start_time |-> 0,   end_time |-> 1440] }

\* tasks.py imports neither Avg, Min, Max nor Sum (lines 6-18): building the
\* query of aggregate_hourly_data or aggregate_daily_data raises NameError.
\* The hourly query of migrate_data (232-240) annotates
\* sample_count=Sum('sample_count') and then, in the same annotate(),
\* quality_score=Avg('good_samples') * 100 / Avg('sample_count'): the name
\* sample_count now resolves to the annotation, an aggregate, and building
\* the query raises FieldError once the sensor has 5-minute rows.
QueryRaises(run, rows) ==
    \/ run.kind \in {"aggregate_hourly_data", "aggregate_daily_data"}
    \/ run.kind = "migrate_data" /\ run.tier = "historical" /\ rows # {}

\* the except clause of the sensor loop: the tasks count the error, the
\* command only prints it
AfterRaise(run) ==
    [run EXCEPT !.errors = @ + (IF run.kind = "migrate_data" THEN 0 ELSE 1)]

\* the tier a run fills first, and the tier migrate_data fills next
FirstTier(kind) ==
    CASE kind = "aggregate_hourly_data" -> "historical"
      [] kind = "aggregate_daily_data"  -> "archive"
      [] OTHER                          -> "recent"

NextTier(tier) == IF tier = "recent" THEN "historical" ELSE "archive"

NoRows == [recent |-> {}, historical |-> {}, archive |-> {}]

\* a run not started: seen holds the finer-tier rows of the window at each
\* sensor's turn, left the table each write left, passed the tiers the run is
\* through with
IdleRun ==
    [kind |-> "none", start_time |-> 0, end_time |-> 0, tier |-> "none",
     pc |-> "idle", i |-> 1, seen |-> NoRows, left |-> NoRows, passed |-> {},
     status |-> "none", records_created |-> 0, sensors_processed |-> 0,
     errors |-> 0]

AggInit ==
    /\ realtime = {}
    /\ recent = {}
    /\ historical = {}
    /\ archive = {}
    /\ runs = [r \in RunIds |-> IdleRun]

AggIdle == AggInit

\* sync_historical_sensor_data stores a sample of the upstream
Ingest ==
    /\ Cardinality(realtime) < MaxRaw
    /\ \E s \in RawPool \ realtime : realtime' = realtime \cup {s}
    /\ UNCHANGED << recent, historical, archive, runs >>
    /\ UNCHANGED notAgg

\* a task or the command starts: AggregationJob.objects.create(status='running')
StartRun(r) ==
    /\ runs[r].pc = "idle"
    /\ \A q \in RunIds : q < r => runs[q].pc # "idle"
    /\ \E c \in RunChoices :
          runs' = [runs EXCEPT ![r] =
                     [IdleRun EXCEPT !.kind = c.kind,
                                     !.start_time = c.start_time,
                                     !.end_time = c.end_time,
                                     !.tier = FirstTier(c.kind),
                                     !.pc = "query",
                                     !.status = "running"]]
    /\ UNCHANGED << realtime, recent, historical, archive >>
    /\ UNCHANGED notAgg

\* the loop "for sensor in sensors" moves on
NextSensor(run) ==
    IF run.i < Len(ActiveSensors)
    THEN [run EXCEPT !.i = @ + 1, !.pc = "query"]
    ELSE [run EXCEPT !.pc = "finish", !.passed = @ \cup {run.tier}]

\* the rows the query of the run's tier returns for a sensor
Queried(run, sensor) ==
    CASE run.tier = "recent" ->
            InWindow(realtime, sensor, run.start_time, run.end_time)
      [] run.tier = "historical" ->
            InWindow(recent, sensor, run.start_time, run.end_time)
      [] OTHER ->
            OfDate(historical, sensor, DayStart(run.start_time))

\* the query for one sensor; an exception is counted and the loop goes on
Query(r) ==
    LET run    == runs[r]
        sensor == ActiveSensors[run.i]
        rows   == Queried(run, sensor)
    IN /\ run.pc = "query"
       /\ runs' = [runs EXCEPT ![r] =
                     LET at == [run EXCEPT !.seen[run.tier] = @ \cup rows]
                     IN IF QueryRaises(run, rows)
                        THEN NextSensor(AfterRaise(at))
                        ELSE IF rows = {}
                        THEN NextSensor([at EXCEPT !.sensors_processed = @ + 1])
                        ELSE [at EXCEPT !.pc = "write"]]
       /\ UNCHANGED << realtime, recent, historical, archive >>
       /\ UNCHANGED notAgg

\* the run after bulk_create raised IntegrityError, and after it inserted
AfterError(run, table) ==
    NextSensor([run EXCEPT !.errors = @ + 1, !.left[run.tier] = table])

AfterWrite(run, table, created) ==
    NextSensor([run EXCEPT !.records_created = @ + created,
                           !.sensors_processed = @ + 1,
                           !.left[run.tier] = table])

\* the records of one sensor are written to the table of the run's tier
Write(r) ==
    LET run    == runs[r]
        sensor == ActiveSensors[run.i]
        rows   == { x \in run.seen[run.tier] : x.sensor = sensor }
    IN /\ run.pc = "write"
       /\ CASE run.tier = "recent" ->
                 LET records == recent_records(sensor, run.start_time, rows)
                 IN /\ IF NotNullViolated(records)
                       THEN /\ recent' = recent
                            /\ runs' = [runs EXCEPT ![r] = AfterError(run, recent)]
                       ELSE \E t \in bulk_create(recent, records) :
                               /\ recent' = t
                               /\ runs' = [runs EXCEPT ![r] =
                                     AfterWrite(run, t, Cardinality(MinuteGroups(rows)))]
                    /\ UNCHANGED << historical, archive >>
            [] run.tier = "historical" ->
                 LET records == hourly_records(sensor, rows)
                 IN /\ IF NotNullViolated(records)
                       THEN /\ historical' = historical
                            /\ runs' = [runs EXCEPT ![r] = AfterError(run, historical)]
                       ELSE \E t \in bulk_create(historical, records) :
                               /\ historical' = t
                               /\ runs' = [runs EXCEPT ![r] =
                                     AfterWrite(run, t, Cardinality(records))]
                    /\ UNCHANGED << recent, archive >>
            [] OTHER ->
                 LET row == ArchiveRecord(sensor, DayStart(run.start_time), rows)
                     t   == update_or_create(archive, row)
                 IN /\ archive' = t
                    /\ runs' = [runs EXCEPT ![r] =
                          AfterWrite(run, t, IF Conflicts(archive, row) THEN 0 ELSE 1)]
                    /\ UNCHANGED << recent, historical >>
       /\ UNCHANGED realtime
       /\ UNCHANGED notAgg

\* the job of the tier is saved as completed; migrate_data then creates the job
\* of the next tier
Finish(r) ==
    LET run == runs[r]
    IN /\ run.pc = "finish"
       /\ runs' = [runs EXCEPT ![r] =
                     IF run.kind = "migrate_data" /\ run.tier # "archive"
                     THEN [run EXCEPT !.tier = NextTier(run.tier),
                                      !.i = 1,
                                      !.pc = "query",
                                      !.status = "running",
                                      !.records_created = 0,
                                      !.sensors_processed = 0,
                                      !.errors = 0]
                     ELSE [run EXCEPT !.pc = "done", !.status = "completed"]]
       /\ UNCHANGED << realtime, recent, historical, archive >>
       /\ UNCHANGED notAgg

AggNext ==
    \/ Ingest
    \/ \E r \in RunIds : StartRun(r) \/ Query(r) \/ Write(r) \/ Finish(r)

(***************************************************************************)
(* calculate_dli                                                           *)
(***************************************************************************)
\* 6:00 AM and 6:00 PM, in minutes of the day
PhotoperiodStart == 6 * 60
PhotoperiodEnd == 18 * 60

\* the timestamps and avg_value (fixed point, two decimals) of the 5-minute
\* rows followed: 05:55, 06:00, 12:00, 17:55, 18:00 and 0.0, 0.1, 200.0,
\* 400.0, 600.0
DliTimes == {355, 360, 720, 1075, 1080}
DliValues == {0, 10, 200 * Scale, 400 * Scale, 600 * Scale}

\* filter(timestamp__gte=start_time, timestamp__lt=end_time)
InPhotoperiod(rows) ==
    { x \in rows : PhotoperiodStart <= x.timestamp /\ x.timestamp < PhotoperiodEnd }

\* aggregate(avg_ppfd=Avg('avg_value'), sample_count=Count('id')): the sum and
\* the count of the rows; avg_ppfd is None when there is no row
PpfdData(rows) ==
    [sum          |-> SumOver([x \in rows |-> x.avg_value], rows),
     sample_count |-> Cardinality(rows)]

\* round((avg_ppfd * 43200) / 1000000, 2) as a fixed-point number, from
\* avg_ppfd = sum / sample_count
DliOf(ppfd_data) ==
    RoundDiv(ppfd_data.sum * 432, ppfd_data.sample_count * 100 * Scale)

\* "if ppfd_data['avg_ppfd'] and ppfd_data['sample_count'] > 0": None and 0.0
\* are both false
calculate_dli(found, rows) ==
    IF ~found THEN << >>
    ELSE LET ppfd_data == PpfdData(InPhotoperiod(rows))
         IN IF ppfd_data.sample_count > 0 /\ ppfd_data.sum # 0
            THEN << DliOf(ppfd_data) >>
            ELSE << >>

\* dli_context[...] = dli_value or 0
DliContext(dli_value) ==
    IF dli_value = << >> \/ dli_value = << 0 >> THEN 0 ELSE dli_value[1]

DliIdle ==
    /\ d_found = FALSE
    /\ d_rows = {}
    /\ d_dli = << >>
    /\ d_context = 0
    /\ d_pc = "idle"

DliInit ==
    /\ d_found \in BOOLEAN
    /\ \E S \in SUBSET DliTimes : \E f \in [S -> DliValues] :
          d_rows = { [timestamp |-> t, avg_value |-> f[t]] : t \in S }
    /\ d_dli = << >>
    /\ d_context = 0
    /\ d_pc = "input"

\* calculate_dli_values calls calculate_dli for the sensor
DliCall ==
    /\ d_pc = "input"
    /\ d_dli' = calculate_dli(d_found, d_rows)
    /\ d_context' = DliContext(d_dli')
    /\ d_pc' = "returned"
    /\ UNCHANGED << d_found, d_rows >>
    /\ UNCHANGED notDli

DliNext == DliCall

(***************************************************************************)
(* Ingest: fetch_latest_data, fetch_historical_data                        *)
(***************************************************************************)
\* the longest response followed
MaxBatch == 2

\* a value of the API or of a sample: a number, or null (None, or the key
\* absent)
NoValue == [kind |-> "null", n |-> 0]
Number(n) == [kind |-> "number", n |-> n]

\* SensorType.min_value and max_value of the sensors followed
TypeMin == 0
TypeMax == 100

\* the sensors followed: without calibration, and with multiplier 2 and
\* offset -100
Sensors ==
    { [calibration_multiplier |-> 1, calibration_offset |-> 0,
       min_value |-> TypeMin, max_value |-> TypeMax],
      [calibration_multiplier |-> 2, calibration_offset |-> 0 - 100,
       min_value |-> TypeMin, max_value |-> TypeMax] }

\* what a record of the response holds for the sensor's api_value_key: a
\* number, null, a text that is not a number; or the record has None in the
\* place of the dict with the key ("none"), or something that is no dict
\* ("nodict")
RawValues ==
    { [kind |-> "none", n |-> 0], NoValue, [kind |-> "text", n |-> 0],
      [kind |-> "nodict", n |-> 0] }
    \cup { Number(n) : n \in {0 - 1, 0, 50, 100, 101} }

\* a calibration that adds the offset before it multiplies
get_calibrated_value_OffsetFirst(sensor, raw_value) ==
    IF raw_value.kind = "null" THEN NoValue
    ELSE Number((raw_value.n + sensor.calibration_offset)
                * sensor.calibration_multiplier)

\* Sensor.get_calibrated_value, for None and for a number
get_calibrated_value(sensor, raw_value) ==
    IF raw_value.kind = "null" THEN NoValue
    ELSE Number(raw_value.n * sensor.calibration_multiplier
                + sensor.calibration_offset)

\* raw_value * self.calibration_multiplier raises TypeError for a text
CalibrationRaises(raw_value) == raw_value.kind = "text"

\* the data point fetch_historical_data appends for a record
HistoricalPoint(sensor, record) ==
    IF record.data.kind = "none"
    THEN [timestamp |-> record.datetime, processed_value |-> NoValue,
          quality_flag |-> "missing"]
    ELSE LET processed_value == get_calibrated_value(sensor, record.data)
         IN [timestamp |-> record.datetime, processed_value |-> processed_value,
             quality_flag |-> IF processed_value.kind # "null" THEN "good" ELSE "bad"]

\* record_data.get(...) raises AttributeError when the record holds no dict
GetRaises(raw_value) == raw_value.kind = "nodict"

\* the exception that ends the loop over the records: that of the first record
\* that raises one, or "none"
LoopException(dated) ==
    LET failing == SelectSeq(dated, LAMBDA record :
                       GetRaises(record.data) \/ CalibrationRaises(record.data))
    IN IF failing = << >> THEN "none"
       ELSE IF GetRaises(failing[1].data) THEN "AttributeError" ELSE "TypeError"

\* the records with a datetime: "if datetime_str:"
WithDatetime(result) == SelectSeq(result, LAMBDA record : record.has_datetime)

\* fetch_historical_data when no AttributeError leaves it: the points of the
\* records that have a datetime; a TypeError is caught outside the loop and []
\* is returned
fetch_historical_data(sensor, result) ==
    LET dated == WithDatetime(result)
    IN IF LoopException(dated) # "none"
       THEN << >>
       ELSE ListOf([k \in 1..Len(dated) |-> HistoricalPoint(sensor, dated[k])])

\* fetch_latest_data at time now when no AttributeError leaves it: << >> for
\* None, else the one data point
fetch_latest_data(sensor, result, now) ==
    IF result = << >> THEN << >>
    ELSE IF CalibrationRaises(result[1].data) THEN << >>
    ELSE LET processed_value == get_calibrated_value(sensor, result[1].data)
         IN << [timestamp |-> now, processed_value |-> processed_value,
                quality_flag |-> IF processed_value.kind # "null" THEN "good"
                                 ELSE "missing"] >>

IngestIdle ==
    /\ u_sensor = [calibration_multiplier |-> 1, calibration_offset |-> 0,
                   min_value |-> TypeMin, max_value |-> TypeMax]
    /\ u_path = "none"
    /\ u_result = << >>
    /\ u_points = << >>
    /\ u_stored = << >>
    /\ u_raised = FALSE
    /\ u_pc = "idle"

\* a response with up to MaxBatch records, dated 601, 602, ...; a record of
\* get-latest-data is the dict that holds the key
IngestInit ==
    /\ u_sensor \in Sensors
    /\ u_path \in {"latest", "historical"}
    /\ \E n \in 0..MaxBatch :
       \E raw \in [1..n -> RawValues] :
       \E dated \in [1..n -> BOOLEAN] :
          /\ u_path = "latest" => \A k \in 1..n : raw[k].kind # "none" /\ dated[k]
          /\ u_result = [k \in 1..n |->
                            [datetime |-> 600 + k, has_datetime |-> dated[k],
                             data |-> raw[k]]]
    /\ u_points = << >>
    /\ u_stored = << >>
    /\ u_raised = FALSE
    /\ u_pc = "input"

\* sync_historical_sensor_data: fetch, one RealtimeData row per data point,
\* bulk_create; an exception that leaves the fetch is raised again by
\* self.retry
SyncHistorical ==
    /\ u_pc = "input"
    /\ u_path = "historical"
    /\ u_points' = fetch_historical_data(u_sensor, u_result)
    /\ u_stored' = u_points'
    /\ u_raised' = (LoopException(WithDatetime(u_result)) = "AttributeError")
    /\ u_pc' = "returned"
    /\ UNCHANGED << u_sensor, u_path, u_result >>
    /\ UNCHANGED notIngest

\* fetch_latest_data, at minute 700
FetchLatest ==
    /\ u_pc = "input"
    /\ u_path = "latest"
    /\ u_points' = IF u_result # << >> /\ GetRaises(u_result[1].data) THEN << >>
                   ELSE fetch_latest_data(u_sensor, u_result, 700)
    /\ u_raised' = (u_result # << >> /\ GetRaises(u_result[1].data))
    /\ u_pc' = "returned"
    /\ UNCHANGED << u_sensor, u_path, u_result, u_stored >>
    /\ UNCHANGED notIngest

IngestNext ==
    \/ SyncHistorical
    \/ FetchLatest

(***************************************************************************)
(* sync_latest_data                                                        *)
(***************************************************************************)
\* the number of sync_latest_data runs that overlap
MaxSyncs == 2

SyncIds == 1..MaxSyncs

\* the sensor synchronised
SyncedSensor ==
    [calibration_multiplier |-> 1, calibration_offset |-> 0,
     min_value |-> TypeMin, max_value |-> TypeMax]

\* what get-latest-data answers: nothing, or one record with a reading or null
LatestResponses ==
    { << >> } \cup
    { << [datetime |-> 0, has_datetime |-> TRUE, data |-> raw] >> :
        raw \in {Number(50), Number(51), NoValue} }

LatestIdle ==
    /\ l_now = 0
    /\ l_syncs = [p \in SyncIds |-> [pc |-> "idle", api_data |-> << >>]]
    /\ l_latest = << >>
    /\ l_last_seen = 0

LatestInit ==
    /\ l_now = 1
    /\ l_syncs = [p \in SyncIds |-> [pc |-> "fetch", api_data |-> << >>]]
    /\ l_latest = << >>
    /\ l_last_seen = 0

\* api_data = self.fetch_latest_data(sensor); None counts an error
SyncFetch(p) ==
    /\ l_syncs[p].pc = "fetch"
    /\ \E result \in LatestResponses :
          LET api_data == fetch_latest_data(SyncedSensor, result, l_now)
          IN l_syncs' = [l_syncs EXCEPT ![p] =
                           [pc |-> IF api_data = << >> THEN "done" ELSE "update",
                            api_data |-> api_data]]
    /\ l_now' = l_now + 1
    /\ UNCHANGED << l_latest, l_last_seen >>
    /\ UNCHANGED notLatest

\* LatestSensorValue.objects.update_or_create(sensor=sensor, defaults=...)
SyncUpdate(p) ==
    /\ l_syncs[p].pc = "update"
    /\ l_latest' = l_syncs[p].api_data
    /\ l_syncs' = [l_syncs EXCEPT ![p].pc = "save"]
    /\ UNCHANGED << l_now, l_last_seen >>
    /\ UNCHANGED notLatest

\* sensor.last_seen = api_data['timestamp']; sensor.save(...)
SyncSave(p) ==
    /\ l_syncs[p].pc = "save"
    /\ l_last_seen' = l_syncs[p].api_data[1].timestamp
    /\ l_syncs' = [l_syncs EXCEPT ![p].pc = "done"]
    /\ UNCHANGED << l_now, l_latest >>
    /\ UNCHANGED notLatest

LatestNext ==
    \E p \in SyncIds : SyncFetch(p) \/ SyncUpdate(p) \/ SyncSave(p)

(***************************************************************************)
(* AggregationJob and the exceptions of a run                              *)
(***************************************************************************)
\* the number of active sensors, and of days migrate_data goes through
MaxSensors == 2
MaxDays == 2

SensorIndex == 1..MaxSensors

\* the entry points: the three tasks and Command.aggregate_5min_data
JobKinds ==
    { "aggregate_5min_data", "aggregate_hourly_data", "aggregate_daily_data",
      "migrate_5min" }

\* level= of the job an entry point creates
LevelOf(kind) ==
    CASE kind = "aggregate_hourly_data" -> "hourly"
      [] kind = "aggregate_daily_data"  -> "daily"
      [] OTHER                          -> "5min"

\* the days an entry point goes through: "while current_date <= end_date"
DaysOf(kind) == IF kind = "migrate_5min" THEN MaxDays ELSE 1

\* the sensor loop of the hourly and daily tasks raises NameError for every
\* sensor (Avg, Min, Max, Sum are not imported); the 5-minute aggregation
\* raises for a sensor or not, as its query and its insert go
SensorOutcomes(kind) ==
    IF kind \in {"aggregate_hourly_data", "aggregate_daily_data"}
    THEN {TRUE}
    ELSE BOOLEAN

\* str(e) of the exceptions followed
ErrorMessage == "OperationalError"

\* AggregationJob.objects.create(level=..., status='running', ...)
NewJob(kind) ==
    [level |-> LevelOf(kind), status |-> "running", error_message |-> "",
     processed_sensors |-> 0]

NewLog ==
    [ended |-> FALSE, end_status |-> "none", thrown |-> FALSE,
     attempted |-> {}, raised |-> {}, errors |-> 0]

NoStats == [sensors_processed |-> 0, errors |-> 0]

IdleJobRun ==
    [kind |-> "none", pc |-> "idle", day |-> 1, i |-> 1, job |-> 0,
     stats |-> NoStats, thrown |-> FALSE]

JobIdle ==
    /\ j_jobs = << >>
    /\ j_log = << >>
    /\ j_run = IdleJobRun

JobInit ==
    /\ j_jobs = << >>
    /\ j_log = << >>
    /\ \E kind \in JobKinds : j_run = [IdleJobRun EXCEPT !.kind = kind, !.pc = "create"]

\* job.status = 'failed'; job.error_message = str(e); job.save()
MarkFailed(jobs, k) ==
    [jobs EXCEPT ![k].status = "failed", ![k].error_message = ErrorMessage]

\* the command goes on with the next day, a task is left by the exception
AfterJobException(run) ==
    IF run.kind = "migrate_5min"
    THEN IF run.day < DaysOf(run.kind)
         THEN [run EXCEPT !.day = @ + 1, !.pc = "create", !.thrown = TRUE]
         ELSE [run EXCEPT !.pc = "returned", !.thrown = TRUE]
    ELSE [run EXCEPT !.pc = "raised", !.thrown = TRUE]

\* the job rows after an exception outside the sensor loop: the 5-minute task
\* marks its job failed; the command marks the job its variable holds, if
\* any ('job' in locals()); the hourly and daily tasks only log and raise
JobsAfterException(run, jobs) ==
    IF run.kind \in {"aggregate_5min_data", "migrate_5min"} /\ run.job # 0
    THEN MarkFailed(jobs, run.job)
    ELSE jobs

\* the job is created as running, or creating it raises
JobCreate ==
    /\ j_run.pc = "create"
    /\ \/ /\ j_jobs' = Append(j_jobs, NewJob(j_run.kind))
          /\ j_log' = Append(j_log, NewLog)
          /\ j_run' = [j_run EXCEPT !.job = Len(j_jobs) + 1, !.pc = "sensors",
                                    !.i = 1, !.stats = NoStats]
       \/ /\ j_jobs' = (IF j_run.kind = "migrate_5min"
                         THEN JobsAfterException(j_run, j_jobs) ELSE j_jobs)
          /\ j_log' = j_log
          /\ j_run' = AfterJobException(j_run)
    /\ UNCHANGED notJob

\* Sensor.objects.filter(is_active=True) is evaluated for the loop, or
\* evaluating it raises
SensorsQuery ==
    /\ j_run.pc = "sensors"
    /\ \/ /\ j_run' = [j_run EXCEPT !.pc = "loop"]
          /\ UNCHANGED << j_jobs, j_log >>
       \/ /\ j_jobs' = JobsAfterException(j_run, j_jobs)
          /\ j_log' = [j_log EXCEPT ![j_run.job].ended = TRUE,
                                    ![j_run.job].thrown = TRUE,
                                    ![j_run.job].end_status = j_jobs'[j_run.job].status]
          /\ j_run' = AfterJobException(j_run)
    /\ UNCHANGED notJob

\* the statistics after a sensor whose aggregation did not count
CountError_Dropped(stats) == stats

\* except Exception as e: ... stats['errors'] += 1
CountError(stats) == [stats EXCEPT !.errors = @ + 1]

\* the body of "for sensor in sensors" for one sensor, inside try/except
SensorStep ==
    /\ j_run.pc = "loop"
    /\ \E raises \in SensorOutcomes(j_run.kind) :
          /\ j_run' = [j_run EXCEPT
                         !.stats = IF raises THEN CountError(@)
                                   ELSE [@ EXCEPT !.sensors_processed = @ + 1],
                         !.i = @ + 1,
                         !.pc = IF j_run.i < MaxSensors THEN "loop" ELSE "complete"]
          /\ j_log' = [j_log EXCEPT
                         ![j_run.job].attempted = @ \cup {j_run.i},
                         ![j_run.job].raised = IF raises THEN @ \cup {j_run.i} ELSE @]
    /\ UNCHANGED j_jobs
    /\ UNCHANGED notJob

\* job.status = 'completed'; job.processed_sensors = ...; job.save(); the
\* task returns, the command goes on with the next day
JobComplete ==
    /\ j_run.pc = "complete"
    /\ j_jobs' = [j_jobs EXCEPT ![j_run.job].status = "completed",
                                ![j_run.job].processed_sensors =
                                    j_run.stats.sensors_processed]
    /\ j_log' = [j_log EXCEPT ![j_run.job].ended = TRUE,
                              ![j_run.job].end_status = "completed",
                              ![j_run.job].errors = j_run.stats.errors]
    /\ j_run' = IF j_run.day < DaysOf(j_run.kind)
                THEN [j_run EXCEPT !.day = @ + 1, !.pc = "create"]
                ELSE [j_run EXCEPT !.pc = "returned"]
    /\ UNCHANGED notJob

JobNext ==
    \/ JobCreate
    \/ SensorsQuery
    \/ SensorStep
    \/ JobComplete

(***************************************************************************)
(* get_history_val: the request loop                                       *)
(***************************************************************************)
\* max_retries=2, the default every caller uses
max_retries == 2

\* the longest "result" list of a response
MaxRecords == 2

NameValues == {"val", "temp"}

\* the records of a response: record.get('datetime') and record.get('data');
\* data is a dict with the key "val", an empty dict, null or a string
RecordKinds ==
    { [datetime |-> << 10 >>, data |-> [kind |-> "dict", val |-> << 21 * Scale >>]],
      [datetime |-> << >>,    data |-> [kind |-> "dict", val |-> << 22 * Scale >>]],
      [datetime |-> << 20 >>, data |-> [kind |-> "dict", val |-> << >>]],
      [datetime |-> << 30 >>, data |-> [kind |-> "none", val |-> << >>]],
      [datetime |-> << 40 >>, data |-> [kind |-> "text", val |-> << >>]] }

Payloads == UNION { [1..n -> RecordKinds] : n \in 0..MaxRecords }

\* what one requests.get(...) and the reading of its response come to
Outcomes ==
    { [kind |-> k, result |-> << >>] :
        k \in {"timeout", "connection_error", "http_error", "bad_json",
               "not_dict", "no_result"} }
    \cup { [kind |-> "ok", result |-> ListOf(p)] : p \in Payloads }

EmptyResult == [error |-> << >>, datetimes |-> << >>, values |-> << >>]

\* {"error": "Missing 'result' in API response", "datetimes": [], "values": []}
MissingResult ==
    [error |-> << "Missing 'result' in API response" >>,
     datetimes |-> << >>, values |-> << >>]

\* record_data.get(name_value, -1), and -1 for a null data
RecordValue(record, name_value) ==
    IF record.data.kind = "none" THEN SENTINEL
    ELSE IF name_value = "val" /\ record.data.val # << >>
         THEN record.data.val[1]
         ELSE SENTINEL

\* "for record in data['result']": a data that is a string has no .get, the
\* AttributeError is caught by "except Exception"
ParseRecords(records, name_value) ==
    IF \E i \in 1..Len(records) : records[i].data.kind = "text"
    THEN EmptyResult
    ELSE LET dated == SelectSeq(records, LAMBDA r : r.datetime # << >>)
         IN [error |-> << >>,
             datetimes |-> ListOf([i \in 1..Len(dated) |-> dated[i].datetime[1]]),
             values |-> ListOf([i \in 1..Len(records) |->
                                   RecordValue(records[i], name_value)])]

\* the value an attempt returns when it does not time out
Returned(outcome, name_value) ==
    CASE outcome.kind = "ok"        -> ParseRecords(outcome.result, name_value)
      [] outcome.kind = "no_result" -> MissingResult
      [] OTHER                      -> EmptyResult

\* "except requests.Timeout: if attempt < max_retries - 1: ... continue"
Retried(outcome, attempt) ==
    outcome.kind = "timeout" /\ attempt < max_retries - 1

RetryIdle ==
    /\ g_name_value = "val"
    /\ g_attempt = 0
    /\ g_history = << >>
    /\ g_sleeps = 0
    /\ g_result = EmptyResult
    /\ g_pc = "idle"

RetryInit ==
    /\ g_name_value \in NameValues
    /\ g_attempt = 0
    /\ g_history = << >>
    /\ g_sleeps = 0
    /\ g_result = EmptyResult
    /\ g_pc = "request"

\* one pass of the loop body: the request, the parsing of its response and
\* the except clauses
Request ==
    /\ g_pc = "request"
    /\ g_attempt < max_retries
    /\ \E outcome \in Outcomes :
          /\ g_history' = Append(g_history, outcome)
          /\ IF Retried(outcome, g_attempt)
             THEN /\ g_sleeps' = g_sleeps + 1
                  /\ g_attempt' = g_attempt + 1
                  /\ UNCHANGED << g_result, g_pc >>
             ELSE /\ g_result' = Returned(outcome, g_name_value)
                  /\ g_pc' = "returned"
                  /\ UNCHANGED << g_sleeps, g_attempt >>
    /\ UNCHANGED g_name_value
    /\ UNCHANGED notRetry

RetryNext == Request

(***************************************************************************)
(* The order of the tier aggregations                                      *)
(***************************************************************************)
\* the clock ticks followed in the scheduled mode
MaxTicks == 3

\* one slot is five minutes ("Runs every 5 minutes")
SlotMinutes == 5
SlotsPerHour == 60 \div SlotMinutes
SlotsPerDay == 24 * SlotsPerHour

\* the tier below a tier: what an aggregation reads
FinerTier(tier) == IF tier = "daily" THEN "hourly" ELSE "5min"

\* aggregate_5min_data without arguments: the last 10 minutes
Default5min(now) == [tier |-> "5min", start |-> now - 10 \div SlotMinutes, end |-> now]

\* aggregate_hourly_data without arguments: the last 2 hours before the
\* current full hour
DefaultHourly(now) ==
    LET end_dt == now - (now % SlotsPerHour)
    IN [tier |-> "hourly", start |-> end_dt - 2 * SlotsPerHour, end |-> end_dt]

\* aggregate_daily_data without arguments: yesterday
DefaultDaily(now) ==
    LET today == now - (now % SlotsPerDay)
    IN [tier |-> "daily", start |-> today - SlotsPerDay, end |-> today]

\* the aggregation of one tier for one day of migrate_data
DayWindow(tier, day) ==
    [tier |-> tier, start |-> day * SlotsPerDay, end |-> (day + 1) * SlotsPerDay]

\* the periodic tasks due at a time: every 5 minutes, every hour, daily at
\* midnight
Due(now) ==
    {Default5min(now)}
    \cup (IF now % SlotsPerHour = 0 THEN {DefaultHourly(now)} ELSE {})
    \cup (IF now % SlotsPerDay = 0 THEN {DefaultDaily(now)} ELSE {})

\* Command.handle: 5-minute, then hourly, then daily aggregation, each for
\* every day of the range
MigratePlan ==
    ListOf([i \in 1..(3 * MaxDays) |->
        DayWindow(CASE i <= MaxDays -> "5min"
                    [] i <= 2 * MaxDays -> "hourly"
                    [] OTHER -> "daily",
                  (i - 1) % MaxDays)])

\* full_data_pipeline: the 5-minute aggregation, then the hourly one when
\* start_time and end_time are given
PipelinePlan(given, now) ==
    IF given
    THEN << [tier |-> "5min", start |-> 0, end |-> 2 * SlotsPerHour],
            [tier |-> "hourly", start |-> 0, end |-> 2 * SlotsPerHour] >>
    ELSE << Default5min(now) >>

\* every slot of a window was aggregated on a tier: earlier, or by a run
\* that has finished
Covered(tier, start, end, base, tasks) ==
    \A t \in start..(end - 1) :
        \/ t < base
        \/ \E r \in tasks : /\ r.tier = tier
                            /\ r.st = "done"
                            /\ r.start <= t
                            /\ t < r.end

Dispatched(w) == [tier |-> w.tier, start |-> w.start, end |-> w.end,
                  st |-> "queued", ready |-> FALSE]

OrderIdle ==
    /\ o_mode = "none"
    /\ o_now = 0
    /\ o_base = 0
    /\ o_plan = << >>
    /\ o_tasks = {}

\* the scheduled mode starts ten minutes before midnight with everything
\* before aggregated; the sequences start on an empty store
OrderInit ==
    \/ /\ o_mode = "scheduled"
       /\ o_now = SlotsPerDay - 2
       /\ o_base = SlotsPerDay - 2
       /\ o_plan = << >>
       /\ o_tasks = {}
    \/ /\ o_mode = "migrate_data"
       /\ o_now = 0
       /\ o_base = 0
       /\ o_plan = MigratePlan
       /\ o_tasks = {}
    \/ /\ o_mode = "full_data_pipeline"
       /\ o_now \in {2 * SlotsPerHour, 2 * SlotsPerHour + 1}
       /\ o_base = 0
       /\ \E given \in BOOLEAN : o_plan = PipelinePlan(given, o_now)
       /\ o_tasks = {}

\* five minutes pass and the periodic tasks that are due are sent to the
\* workers
Tick ==
    /\ o_mode = "scheduled"
    /\ o_now < SlotsPerDay - 2 + MaxTicks
    /\ o_now' = o_now + 1
    /\ o_tasks' = o_tasks \cup { Dispatched(w) : w \in Due(o_now + 1) }
    /\ UNCHANGED << o_mode, o_base, o_plan >>
    /\ UNCHANGED notOrder

\* a sequence calls its next aggregation once the one before has returned
CallNext ==
    /\ o_mode \in {"migrate_data", "full_data_pipeline"}
    /\ o_plan # << >>
    /\ \A r \in o_tasks : r.st = "done"
    /\ o_tasks' = o_tasks \cup {Dispatched(Head(o_plan))}
    /\ o_plan' = Tail(o_plan)
    /\ UNCHANGED << o_mode, o_now, o_base >>
    /\ UNCHANGED notOrder

\* an aggregation starts to read the tier below; nothing in it waits for or
\* looks at the aggregation of that tier
TaskStart ==
    /\ \E r \in o_tasks :
          /\ r.st = "queued"
          /\ o_tasks' = (o_tasks \ {r}) \cup
                { [r EXCEPT !.st = "running",
                            !.ready = \/ r.tier = "5min"
                                      \/ Covered(FinerTier(r.tier), r.start, r.end,
                                                 o_base, o_tasks)] }
    /\ UNCHANGED << o_mode, o_now, o_base, o_plan >>
    /\ UNCHANGED notOrder

TaskFinish ==
    /\ \E r \in o_tasks :
          /\ r.st = "running"
          /\ o_tasks' = (o_tasks \ {r}) \cup { [r EXCEPT !.st = "done"] }
    /\ UNCHANGED << o_mode, o_now, o_base, o_plan >>
    /\ UNCHANGED notOrder

OrderNext ==
    \/ Tick
    \/ CallNext
    \/ TaskStart
    \/ TaskFinish

(***************************************************************************)
(* SensorDataService.get_historical_data                                   *)
(***************************************************************************)
\* the most rows stored for the range
MaxStored == 13

\* queryset[::interval]: the rows at the 0-based positions 0, interval, ...
Stepped(rows, interval) ==
    LET kept == SortedSeq({ i \in 0..(Len(rows) - 1) : i % interval = 0 }, Len(rows))
    IN ListOf([k \in 1..Len(kept) |-> rows[kept[k] + 1]])

\* "Apply sampling if needed" and the values of the records that remain
HistoricalValues(rows, max_points) ==
    LET total_points == Len(rows)
    IN IF total_points > max_points
       THEN Stepped(rows, Max2(1, total_points \div max_points))
       ELSE rows

HistIdle ==
    /\ h_rows = << >>
    /\ h_max_points = 1
    /\ h_values = << >>
    /\ h_pc = "idle"

HistInit ==
    /\ \E n \in 0..MaxStored : h_rows = [i \in 1..n |-> (20 + i) * Scale]
    /\ h_max_points \in 1..MaxTarget
    /\ h_values = << >>
    /\ h_pc = "input"

\* get_historical_data on a cache miss
HistoricalCall ==
    /\ h_pc = "input"
    /\ h_values' = HistoricalValues(h_rows, h_max_points)
    /\ h_pc' = "returned"
    /\ UNCHANGED << h_rows, h_max_points >>
    /\ UNCHANGED notHist

HistNext == HistoricalCall

(***************************************************************************)
(* determine_aggregation_interval on its own                               *)
(***************************************************************************)
\* the point counts and ranges followed: the thresholds of the policy and
\* their neighbours
PointCounts == {0, 499, 2000, 2001, 5000, 5001, 10000, 10001, 50000}
DayRanges == {0, 1, 3, 4, 7, 8, 31, 32, 400}

PolicyIdle ==
    /\ p_points = 0
    /\ p_days = 0
    /\ p_interval = 0
    /\ p_pc = "idle"

PolicyInit ==
    /\ p_points \in PointCounts
    /\ p_days \in DayRanges
    /\ p_interval = 0
    /\ p_pc = "input"

PolicyCall ==
    /\ p_pc = "input"
    /\ p_interval' = determine_aggregation_interval(p_points, p_days)
    /\ p_pc' = "returned"
    /\ UNCHANGED << p_points, p_days >>
    /\ UNCHANGED notPolicy

PolicyNext == PolicyCall

(***************************************************************************)
(* aggregate_to_recent_data over windows that cross midnight               *)
(***************************************************************************)
\* the most raw samples stored
MaxSamples == 2

\* the windows followed: ten minutes inside day 0, the ten minutes before
\* 00:05 of day 1 (the window of the task that runs at 00:05), and the two
\* days 0 and 1
Windows ==
    { [start_time |-> 600, end_time |-> 610],
      [start_time |-> 1435, end_time |-> 1445],
      [start_time |-> 0, end_time |-> 2880] }

\* samples at 10:01 and 10:07 of day 0, 23:56 of day 0, 00:02 and 00:03 of
\* day 1 and 10:01 of day 1
WindowPool ==
    { RealtimeRecord(601, Rat(21, 1), "good"),
      RealtimeRecord(607, Rat(22, 1), "good"),
      RealtimeRecord(1436, Rat(21, 1), "good"),
      RealtimeRecord(1442, Rat(22, 1), "good"),
      RealtimeRecord(1443, Rat(23, 1), "good"),
      RealtimeRecord(2041, Rat(24, 1), "good") }

WindowIdle ==
    /\ w_start = 0
    /\ w_end = 0
    /\ w_raw = {}
    /\ w_recent = {}
    /\ w_pc = "idle"

WindowInit ==
    /\ \E w \in Windows : w_start = w.start_time /\ w_end = w.end_time
    /\ w_raw \in { S \in SUBSET WindowPool : Cardinality(S) <= MaxSamples }
    /\ w_recent = {}
    /\ w_pc = "input"

\* aggregate_to_recent_data(start_time, end_time) for the one active sensor
AggregateWindow ==
    /\ w_pc = "input"
    /\ LET sensor == ActiveSensors[1]
           rows == InWindow(w_raw, sensor, w_start, w_end)
       IN \E t \in bulk_create(w_recent, recent_records(sensor, w_start, rows)) :
             w_recent' = t
    /\ w_pc' = "returned"
    /\ UNCHANGED << w_start, w_end, w_raw >>
    /\ UNCHANGED notWindow

WindowNext == AggregateWindow

(***************************************************************************)
(* Specifications                                                          *)
(***************************************************************************)
InitFetch == FetchInit /\ MultiIdle /\ SampleIdle /\ ReadIdle /\ AggIdle /\
             ResampleIdle /\ DliIdle /\ IngestIdle /\ LatestIdle /\ JobIdle /\
             RetryIdle /\ OrderIdle /\ HistIdle /\ PolicyIdle /\ WindowIdle

SpecFetch == InitFetch /\ [][FetchNext]_vars

InitMulti == MultiInit /\ FetchIdle /\ SampleIdle /\ ReadIdle /\ AggIdle /\
             ResampleIdle /\ DliIdle /\ IngestIdle /\ LatestIdle /\ JobIdle /\
             RetryIdle /\ OrderIdle /\ HistIdle /\ PolicyIdle /\ WindowIdle

SpecMulti == InitMulti /\ [][MultiNext]_vars

InitSample == SampleInit /\ FetchIdle /\ MultiIdle /\ ReadIdle /\ AggIdle /\
              ResampleIdle /\ DliIdle /\ IngestIdle /\ LatestIdle /\
              JobIdle /\ RetryIdle /\ OrderIdle /\ HistIdle /\ PolicyIdle /\
              WindowIdle

SpecSample == InitSample /\ [][SampleNext]_vars

InitRead == ReadInit /\ FetchIdle /\ MultiIdle /\ SampleIdle /\ AggIdle /\
            ResampleIdle /\ DliIdle /\ IngestIdle /\ LatestIdle /\ JobIdle /\
            RetryIdle /\ OrderIdle /\ HistIdle /\ PolicyIdle /\ WindowIdle

SpecRead == InitRead /\ [][ReadNext]_vars

InitAgg == AggInit /\ FetchIdle /\ MultiIdle /\ SampleIdle /\ ReadIdle /\
           ResampleIdle /\ DliIdle /\ IngestIdle /\ LatestIdle /\ JobIdle /\
           RetryIdle /\ OrderIdle /\ HistIdle /\ PolicyIdle /\ WindowIdle

SpecAgg == InitAgg /\ [][AggNext]_vars

InitResample == ResampleInit /\ FetchIdle /\ MultiIdle /\ SampleIdle /\
                ReadIdle /\ AggIdle /\ DliIdle /\ IngestIdle /\ LatestIdle /\
                JobIdle /\ RetryIdle /\ OrderIdle /\ HistIdle /\ PolicyIdle /\
                WindowIdle

SpecResample == InitResample /\ [][ResampleNext]_vars

InitDli == DliInit /\ FetchIdle /\ MultiIdle /\ SampleIdle /\ ReadIdle /\
           AggIdle /\ ResampleIdle /\ IngestIdle /\ LatestIdle /\ JobIdle /\
           RetryIdle /\ OrderIdle /\ HistIdle /\ PolicyIdle /\ WindowIdle

SpecDli == InitDli /\ [][DliNext]_vars

InitIngest == IngestInit /\ FetchIdle /\ MultiIdle /\ SampleIdle /\
              ReadIdle /\ AggIdle /\ ResampleIdle /\ DliIdle /\ LatestIdle /\
              JobIdle /\ RetryIdle /\ OrderIdle /\ HistIdle /\ PolicyIdle /\
              WindowIdle

SpecIngest == InitIngest /\ [][IngestNext]_vars

InitLatest == LatestInit /\ FetchIdle /\ MultiIdle /\ SampleIdle /\
              ReadIdle /\ AggIdle /\ ResampleIdle /\ DliIdle /\ IngestIdle /\
              JobIdle /\ RetryIdle /\ OrderIdle /\ HistIdle /\ PolicyIdle /\
              WindowIdle

SpecLatest == InitLatest /\ [][LatestNext]_vars

InitJob == JobInit /\ FetchIdle /\ MultiIdle /\ SampleIdle /\ ReadIdle /\
           AggIdle /\ ResampleIdle /\ DliIdle /\ IngestIdle /\ LatestIdle /\
           RetryIdle /\ OrderIdle /\ HistIdle /\ PolicyIdle /\ WindowIdle

SpecJob == InitJob /\ [][JobNext]_vars

InitRetry == RetryInit /\ FetchIdle /\ MultiIdle /\ SampleIdle /\ ReadIdle /\
             AggIdle /\ ResampleIdle /\ DliIdle /\ IngestIdle /\ LatestIdle /\
             JobIdle /\ OrderIdle /\ HistIdle /\ PolicyIdle /\ WindowIdle

SpecRetry == InitRetry /\ [][RetryNext]_vars

InitOrder == OrderInit /\ FetchIdle /\ MultiIdle /\ SampleIdle /\ ReadIdle /\
             AggIdle /\ ResampleIdle /\ DliIdle /\ IngestIdle /\ LatestIdle /\
             JobIdle /\ RetryIdle /\ HistIdle /\ PolicyIdle /\ WindowIdle

SpecOrder == InitOrder /\ [][OrderNext]_vars

InitHist == HistInit /\ FetchIdle /\ MultiIdle /\ SampleIdle /\ ReadIdle /\
            AggIdle /\ ResampleIdle /\ DliIdle /\ IngestIdle /\ LatestIdle /\
            JobIdle /\ RetryIdle /\ OrderIdle /\ PolicyIdle /\ WindowIdle

SpecHist == InitHist /\ [][HistNext]_vars

InitPolicy == PolicyInit /\ FetchIdle /\ MultiIdle /\ SampleIdle /\
              ReadIdle /\ AggIdle /\ ResampleIdle /\ DliIdle /\ IngestIdle /\
              LatestIdle /\ JobIdle /\ RetryIdle /\ OrderIdle /\ HistIdle /\
              WindowIdle

SpecPolicy == InitPolicy /\ [][PolicyNext]_vars

InitWindow == WindowInit /\ FetchIdle /\ MultiIdle /\ SampleIdle /\
              ReadIdle /\ AggIdle /\ ResampleIdle /\ DliIdle /\ IngestIdle /\
              LatestIdle /\ JobIdle /\ RetryIdle /\ OrderIdle /\ HistIdle /\
              PolicyIdle

SpecWindow == InitWindow /\ [][WindowNext]_vars

(***************************************************************************)
(* Properties of update_compare_data                                       *)
(***************************************************************************)
\* C1: the map returned by update_compare_data has exactly the distinct keys
\* of all_sensor_queries, whatever fetches succeeded, raised or timed out.
C1_AllKeysPresent ==
    phase = "returned" => DOMAIN context_history = expected_keys

\* a run in which every fetch failed or timed out has returned
C1_Witness ==
    /\ phase = "returned"
    /\ \A k \in DOMAIN context_history : context_history[k] = EMPTY

\* C3 (as claimed): a fetch that had not completed when the timeout expired
\* no longer runs after the handler cancelled it, and its key holds the empty
\* result.
C3_CancelledFetchStops ==
    \A i \in cancel_called :
        /\ fstate[i] # "running"
        /\ future_to_sensor[i] \in DOMAIN context_history
        /\ context_history[future_to_sensor[i]] = EMPTY


\* the fetches in flight stay within the size of the pool of the phase
InFlightBounded ==
    /\ Cardinality(Running) <= 4
    /\ phase = "batch" => Cardinality(Running) <= 3

\* a step that opens the pool of the next phase or batch finds no fetch of
\* the pool before it queued or running
PoolsDisjoint ==
    (phase' # phase \/ batch_i' # batch_i \/ future_to_sensor' # future_to_sensor)
        => (Running = {} /\ Pending = {})

\* C24: during update_compare_data at most 4 series fetches are in flight,
\* at most 4 while the critical series are fetched and at most 3 during each
\* later batch, and the worker pools of successive phases never overlap in
\* time.
C24_BoundedPools ==
    []InFlightBounded /\ [][PoolsDisjoint]_vars

\* the critical pool ran 4 fetches at once and a later batch runs 3
C24_Witness ==
    /\ phase = "batch"
    /\ Cardinality(Running) = 3
    /\ Cardinality({ k \in DOMAIN context_history : context_history[k] = FETCHED }) >= 4

\* every fetch of the pool has completed, failed or was given up
AllSettled == \A i \in Futures : FutureDone(i)

\* the first batch starts after every critical fetch has settled, the
\* remaining list then holds no series the critical phase resolved, and a
\* further batch starts after the batch before it has settled
PhasesInOrder ==
    /\ (phase = "critical" /\ phase' # "critical") =>
          /\ AllSettled
          /\ \A j \in 1..Len(remaining_queries') :
                remaining_queries'[j].key \notin DOMAIN context_history
    /\ (phase = "batch" /\ (batch_i' # batch_i \/ phase' # "batch")) => AllSettled

\* a batch holds at most 6 fetches, each of a series of the remaining list
BatchWithinSize ==
    phase = "batch" =>
        /\ Len(future_to_sensor) <= 6
        /\ \A i \in Futures :
              /\ batch_i + i <= Len(remaining_queries)
              /\ future_to_sensor[i] = remaining_queries[batch_i + i].key

C2_NeverRaisesOneEntryEach ==
    m_pc \in {"returned", "raised"} =>
        /\ m_pc = "returned"
        /\ DOMAIN results = { sensor_ids[i] : i \in 1..Len(sensor_ids) }

(***************************************************************************)
(* Properties of apply_smart_sampling                                      *)
(***************************************************************************)
\* C9: for a series longer than target_points the output of
\* apply_smart_sampling contains the first and the last element of the input,
\* each value with its own timestamp.
C9_EndpointsKept ==
    (s_pc = "sampled" /\ Len(s_data.values) > s_target) =>
        LET n == Len(s_data.values)
            m == Len(s_out.values)
        IN /\ m >= 1
           /\ Len(s_out.datetimes) = m
           /\ s_out.values[1] = s_data.values[1]
           /\ s_out.datetimes[1] = s_data.datetimes[1]
           /\ s_out.values[m] = s_data.values[n]
           /\ s_out.datetimes[m] = s_data.datetimes[n]

\* a sampled series whose last index is not a multiple of the stride
C9_Witness ==
    /\ s_pc = "sampled"
    /\ Len(s_data.values) = 6
    /\ s_target = 2
    /\ Len(s_out.values) = 3

\* the elements of a list at the positions of S, in the order of the list
Picked(list, S) == SelectSeq([i \in 1..Len(list) |-> << i, list[i] >>], LAMBDA e : e[1] \in S)

Second(pairs) == [k \in 1..Len(pairs) |-> pairs[k][2]]

\* C30: apply_smart_sampling returns values and datetimes of equal length
\* that are the elements of the input at one set of positions, taken in the
\* input's order (strictly increasing positions, so nothing is repeated, and
\* each value stays with its own timestamp); a series of at most
\* target_points elements is returned unchanged.
C30_OrderedSubsequence ==
    s_pc = "sampled" =>
        /\ Len(s_out.values) = Len(s_out.datetimes)
        /\ \E S \in SUBSET (1..Len(s_data.values)) :
              /\ s_out.values = Second(Picked(s_data.values, S))
              /\ s_out.datetimes = Second(Picked(s_data.datetimes, S))
        /\ Len(s_data.values) <= s_target => s_out = s_data

\* a series of five points of different values sampled down to three
C30_Witness ==
    /\ s_pc = "sampled"
    /\ Len(s_data.values) = 5
    /\ s_target = 2
    /\ Len(s_out.values) = 3
    /\ s_data.values[1] # s_data.values[3]
    /\ s_out.datetimes = << 10, 30, 50 >>

(***************************************************************************)
(* Properties of get_history_val_optimized                                 *)
(***************************************************************************)
Abs(x) == IF x < 0 THEN 0 - x ELSE x

\* the samples of series inp, other than the sentinel, in the bucket [t0, t0 + w)
BucketMembers(inp, t0, w) ==
    { i \in 1..Len(inp.values) :
        /\ t0 <= inp.datetimes[i]
        /\ inp.datetimes[i] < t0 + w
        /\ inp.values[i] # SENTINEL }

\* v is the mean of the members, to the nearest hundredth
IsRoundedMean(v, inp, m) ==
    2 * Abs(v * Cardinality(m) - SumOver(inp.values, m)) <= Cardinality(m)

\* every bucket of out holds the mean of its samples of inp, or the sentinel
\* when it has none
BucketsHoldMeans(inp, out, w) ==
    /\ Len(out.datetimes) = Len(out.values)
    /\ \A k \in 1..Len(out.values) :
          out.values[k] # SENTINEL =>
              LET m == BucketMembers(inp, out.datetimes[k], w)
              IN m # {} /\ IsRoundedMean(out.values[k], inp, m)
    /\ \A i \in 1..Len(inp.values) :
          inp.values[i] # SENTINEL =>
              LET k == ((inp.datetimes[i] - out.datetimes[1]) \div w) + 1
              IN /\ k \in 1..Len(out.values)
                 /\ out.datetimes[k] = out.datetimes[1] + (k - 1) * w
                 /\ IsRoundedMean(out.values[k], inp,
                                  BucketMembers(inp, out.datetimes[k], w))

\* the request of the claim: 400 days, 50,000 records, max_points = 500,
\* answered by the pipeline and not by the cache
C10_Case ==
    /\ r_calls >= 1
    /\ ~r_hit
    /\ upstream.ok
    /\ upstream.n = 50000
    /\ upstream.range_days = 400
    /\ r_args = [aggregate |-> TRUE, max_points |-> 500]

\* C10 (as claimed): the interval policy selects a 120-minute bucket for that
\* request and every output bucket holds the mean of its samples or the
\* missing sentinel.
C10_Selects120 ==
    C10_Case =>
        /\ r_interval = 120
        /\ BucketsHoldMeans(SampledData(get_history_val(upstream), 500), r_result, 120)

\* C10 (amended): the policy is applied to the 501 points left by smart
\* sampling and selects a 60-minute bucket; every output bucket holds the mean
\* of the sampled points in it or the missing sentinel.
C10_Selects60 ==
    C10_Case =>
        /\ Len(SampledData(get_history_val(upstream), 500).values) = 501
        /\ r_interval = 60
        /\ BucketsHoldMeans(SampledData(get_history_val(upstream), 500), r_result, 60)

\* the request of the claim has been answered with 60-minute buckets
C10_Witness ==
    /\ C10_Case
    /\ r_interval = 60
    /\ Len(r_result.values) > 9000

(***************************************************************************)
(* Aggregation runs                                                        *)
(***************************************************************************)
\* the table of a tier, now and after the step
TierTable(tier) ==
    CASE tier = "recent" -> recent [] tier = "historical" -> historical [] OTHER -> archive

TierTableNext(tier) ==
    CASE tier = "recent" -> recent' [] tier = "historical" -> historical' [] OTHER -> archive'

\* run a has been through the tier with the aggregation, the window and the
\* finer-tier rows run b is about to write from, and the table is as a left it
RanBefore(a, b, tier) ==
    /\ a # b
    /\ tier \in runs[a].passed
    /\ (tier = "recent" \/ runs[a].kind = runs[b].kind)
    /\ runs[a].start_time = runs[b].start_time
    /\ runs[a].end_time = runs[b].end_time
    /\ runs[a].seen[tier] = runs[b].seen[tier]
    /\ runs[a].left[tier] = TierTable(tier)

\* C4: a second run of a tier's aggregation over the same window, with the
\* finer tier unchanged, leaves the rows of the tier exactly as the first run
\* left them: none added, none changed.
C4_RerunLeavesRowsUnchanged ==
    [][ \A b \in RunIds :
          ( /\ runs'[b] # runs[b]
            /\ \E a \in RunIds : RanBefore(a, b, runs[b].tier) )
          => TierTableNext(runs[b].tier) = TierTable(runs[b].tier) ]_vars

\* two migrate_data runs over the same raw samples are through the three
\* tiers, and the 5-minute rows are as each of them left them
C4_Witness ==
    \E a, b \in RunIds :
        /\ a # b
        /\ runs[a].pc = "done" /\ runs[b].pc = "done"
        /\ runs[a].kind = "migrate_data" /\ runs[b].kind = "migrate_data"
        /\ runs[a].seen = runs[b].seen
        /\ runs[a].left = runs[b].left
        /\ recent # {}
        /\ runs[b].left.recent = recent
        /\ \E x, y \in runs[b].seen.recent : x.timestamp # y.timestamp

UniqueKeys(table) == \A x, y \in table : SameKey(x, y) => x = y

\* C5: after any runs, over any windows and in any interleaving, each tier
\* holds at most one row per (sensor, timestamp).
C5_OneRowPerKey ==
    UniqueKeys(recent) /\ UniqueKeys(historical) /\ UniqueKeys(archive)

\* two runs over different rows of a bucket have both written, and the record
\* one of them built for the bucket was skipped
C5_Witness ==
    \E a, b \in RunIds :
        /\ a # b
        /\ "recent" \in runs[a].passed /\ "recent" \in runs[b].passed
        /\ runs[a].seen.recent # runs[b].seen.recent
        /\ \E s \in 1..Len(ActiveSensors) :
              \E c \in recent_records(ActiveSensors[s], runs[b].start_time,
                                      runs[b].seen.recent) :
                  c \notin recent /\ Conflicts(recent, c)

\* the aggregate of a set of raw samples as the specification defines it: the
\* statistics over the values that are neither bad nor missing, the tallies
\* over all samples
Valid(S) == { x \in S : x.quality_flag \notin {"bad", "missing"} }

BucketAggregate(sensor, b, S) ==
    [sensor          |-> sensor,
     timestamp       |-> b,
     avg_value       |-> Avg("processed_value", Valid(S)),
     min_value       |-> Min("processed_value", Valid(S)),
     max_value       |-> Max("processed_value", Valid(S)),
     sample_count    |-> Cardinality(S),
     good_samples    |-> CountFlag(S, "good"),
     suspect_samples |-> CountFlag(S, "suspect"),
     bad_samples     |-> CountFlag(S, "bad"),
     missing_samples |-> CountFlag(S, "missing")]

\* the raw samples of a sensor now stored in the 5-minute bucket starting at b
BucketSamples(sensor, b) == InWindow(realtime, sensor, b, b + 5)

\* a run is through a tier and no finer-tier row has entered its window since
\* its query
Settled(run, tier, finer) ==
    /\ tier \in run.passed
    /\ run.seen[tier] =
          UNION { InWindow(finer, ActiveSensors[s], run.start_time, run.end_time) :
                    s \in 1..Len(ActiveSensors) }

\* C6: once a run over a window has completed and nothing has been ingested
\* into the window since, every 5-minute row of the window equals the
\* aggregate of the raw samples now in its bucket, and every hourly row equals
\* the aggregate of the 5-minute rows now in its hour.
C6_BucketsUpToDate ==
    \A r \in RunIds :
        /\ Settled(runs[r], "recent", realtime) =>
              \A x \in recent :
                  (runs[r].start_time <= x.timestamp /\ x.timestamp < runs[r].end_time)
                  => x = BucketAggregate(x.sensor, x.timestamp,
                                         BucketSamples(x.sensor, x.timestamp))
        /\ Settled(runs[r], "historical", recent) =>
              \A x \in historical :
                  (runs[r].start_time <= x.timestamp /\ x.timestamp < runs[r].end_time)
                  => x = HistoricalRecord(x.sensor,
                            InWindow(recent, x.sensor, x.timestamp, x.timestamp + 60))

\* C7: after aggregate_to_recent_data, every 5-minute bucket of the window with
\* a raw sample has one RecentData row that aggregates all the samples of the
\* bucket: sample_count counts them all, the tallies count them by flag,
\* avg_value is the mean of the values neither bad nor missing.
C7_WholeBucketAggregated ==
    \A r \in RunIds :
        Settled(runs[r], "recent", realtime) =>
            \A s \in runs[r].seen.recent :
                LET b == (s.timestamp \div 5) * 5
                IN (runs[r].start_time <= b /\ b + 5 <= runs[r].end_time)
                   => \E x \in recent :
                         /\ x = BucketAggregate(s.sensor, b, BucketSamples(s.sensor, b))
                         /\ \A y \in recent : SameKey(x, y) => y = x

\* the sum of good_samples over sample_count of the rows, in percent
GoodPercent(g) == Rat(Sum("good_samples", g) * 100, Sum("sample_count", g))

\* the arithmetic mean of the avg_value of the rows
MeanOfAvg(g) ==
    LET s == RatSum("avg_value", g) IN Rat(s.num, s.den * Cardinality(g))

\* C8: the hourly aggregation builds, for each sensor and hour of its window
\* that holds 5-minute rows, an hourly row from those rows: avg_value is the
\* mean of their avg_value, min_value the least min_value, max_value the
\* greatest max_value, sample_count the sum of their sample_count and
\* quality_score the sum of good_samples over the sum of sample_count, times
\* 100.
C8_HourlyRowFromChildren ==
    \A r \in RunIds :
        Settled(runs[r], "historical", recent) =>
            \A c \in runs[r].seen.historical :
                LET g == { d \in runs[r].seen.historical :
                             /\ d.sensor = c.sensor
                             /\ TruncHour(d.timestamp) = TruncHour(c.timestamp) }
                IN \E x \in historical :
                      /\ x.sensor = c.sensor
                      /\ x.timestamp = TruncHour(c.timestamp)
                      /\ x.avg_value = MeanOfAvg(g)
                      /\ \A d \in g : RatLeq(x.min_value, d.min_value)
                      /\ \E d \in g : x.min_value = d.min_value
                      /\ \A d \in g : RatLeq(d.max_value, x.max_value)
                      /\ \E d \in g : x.max_value = d.max_value
                      /\ x.sample_count = Sum("sample_count", g)
                      /\ x.quality_score = GoodPercent(g)

(***************************************************************************)
(* Properties of aggregate_sensor_data                                     *)
(***************************************************************************)
\* the points that contribute to the bucket [t0, t0 + w): those in it, other
\* than the sentinel, that are the last of their datetime
Contributing(inp, t0, w) ==
    { i \in 1..Len(inp.values) :
        /\ t0 <= inp.datetimes[i]
        /\ inp.datetimes[i] < t0 + w
        /\ inp.values[i] # SENTINEL
        /\ \A j \in (i + 1)..Len(inp.values) : inp.datetimes[j] # inp.datetimes[i] }

\* the start of the bucket of width w that holds minute t
BucketOf(t, w) == (t \div w) * w

\* the output has one point for every bucket from the bucket of the earliest
\* datetime to the bucket of the latest, in order
C11_NoGaps ==
    (a_pc = "returned" /\ Len(a_data.values) >= SkipBelow) =>
        LET w     == a_interval
            times == { a_data.datetimes[i] : i \in 1..Len(a_data.values) }
            first == BucketOf(SetMin(times), w)
            last  == BucketOf(SetMax(times), w)
        IN /\ Len(a_out.datetimes) = ((last - first) \div w) + 1
           /\ Len(a_out.values) = Len(a_out.datetimes)
           /\ \A k \in 1..Len(a_out.datetimes) :
                 a_out.datetimes[k] = first + (k - 1) * w

\* a bucket with contributing points holds their mean, one without holds -1
C11_MeanOrSentinel ==
    (a_pc = "returned" /\ Len(a_data.values) >= SkipBelow) =>
        \A k \in 1..Len(a_out.values) :
            LET m == Contributing(a_data, a_out.datetimes[k], a_interval)
            IN IF m = {} THEN a_out.values[k] = SENTINEL
               ELSE IsRoundedMean(a_out.values[k], a_data, m)

\* a -1 in the output marks a bucket without contributing points
C11_SentinelMeansNoData ==
    (a_pc = "returned" /\ Len(a_data.values) >= SkipBelow) =>
        \A k \in 1..Len(a_out.values) :
            a_out.values[k] = SENTINEL =>
                Contributing(a_data, a_out.datetimes[k], a_interval) = {}

\* C11: for an input of at least 500 points the output has one point for
\* every bucket from the earliest to the latest, without gaps; a bucket holds
\* the mean of its values other than -1, or -1 when no point contributes; and
\* a -1 in the output always marks a bucket without data.
C11_EveryBucketOnceSentinelOnlyIfEmpty ==
    C11_NoGaps /\ C11_MeanOrSentinel /\ C11_SentinelMeansNoData

(***************************************************************************)
(* Properties of calculate_dli                                             *)
(***************************************************************************)
\* the avg_value of the rows of the sensor in the 06:00-18:00 window
Readings == { x.avg_value : x \in InPhotoperiod(d_rows) }

\* C12: calculate_dli returns null when the sensor has no 5-minute row in the
\* 06:00-18:00 window of the date, and does not return null when the window
\* holds rows whose readings are all exactly zero.
C12_NullOnlyWithoutData ==
    (d_pc = "returned" /\ d_found) =>
        /\ InPhotoperiod(d_rows) = {} => d_dli = << >>
        /\ (InPhotoperiod(d_rows) # {} /\ Readings = {0}) => d_dli # << >>

\* C13: calculate_dli returns a positive value whenever a reading of the
\* window is positive, returns 0 only when all the readings of the window are
\* exactly zero, and the value it returns is the mean reading times 43200 /
\* 1,000,000 rounded to 2 decimals (17.28 for 200, 400 and 600).
C13_PositiveForPositiveReading ==
    (d_pc = "returned" /\ d_found) =>
        /\ (\E v \in Readings : v > 0) => (d_dli # << >> /\ d_dli[1] > 0)
        /\ d_dli = << 0 >> => Readings = {0}
        /\ d_dli # << >> =>
              LET rows == InPhotoperiod(d_rows)
              IN 2 * Abs(d_dli[1] * Cardinality(rows) * 100 * Scale
                         - 432 * SumOver([x \in rows |-> x.avg_value], rows))
                   <= Cardinality(rows) * 100 * Scale
        /\ Readings = {200 * Scale, 400 * Scale, 600 * Scale} => d_dli = << 1728 >>

(***************************************************************************)
(* Properties of the ingest                                                *)
(***************************************************************************)
\* the flag the specification gives a sample with this raw value
ExpectedFlag(sensor, raw_value) ==
    IF raw_value.kind \in {"none", "null"} THEN "missing"
    ELSE IF raw_value.kind \in {"text", "nodict"} THEN "bad"
    ELSE LET v == get_calibrated_value(sensor, raw_value).n
         IN IF sensor.min_value <= v /\ v <= sensor.max_value THEN "good"
            ELSE "suspect"

\* the records of the response that carry a datetime
Dated == WithDatetime(u_result)

\* C14: on both ingest paths a sample whose calibrated value is exactly
\* min_value or max_value of the sensor type is flagged good, one below
\* min_value or above max_value is flagged suspect, and one whose raw value is
\* null or absent is flagged missing.
C14_FlagsFollowRange ==
    u_pc = "returned" =>
        \A k \in 1..Len(u_points) :
            LET record == IF u_path = "latest" THEN u_result[1] ELSE Dated[k]
            IN record.data.kind # "text" =>
                  u_points[k].quality_flag = ExpectedFlag(u_sensor, record.data)

\* C15: ingesting a batch never raises and never drops a record: every record
\* yields its sample, and a record with a malformed value yields a sample
\* flagged bad with a null value.
C15_LosslessIngest ==
    (u_pc = "returned" /\ u_path = "historical") =>
        /\ ~u_raised
        /\ Len(u_stored) = Len(Dated)
        /\ \A k \in 1..Len(u_stored) :
              /\ u_stored[k].timestamp = Dated[k].datetime
              /\ Dated[k].data.kind \in {"text", "nodict"} =>
                    /\ u_stored[k].quality_flag = "bad"
                    /\ u_stored[k].processed_value = NoValue

\* the record a data point was made from
RecordOf(k) == IF u_path = "latest" THEN u_result[1] ELSE Dated[k]

\* C22: the calibrated value of a raw number is raw * calibration_multiplier
\* + calibration_offset, it is the raw value itself when the multiplier is 1
\* and the offset 0, and the calibrated value of a null raw value is null.
C22_CalibrationFormula ==
    u_pc = "returned" =>
        \A k \in 1..Len(u_points) :
            LET raw == RecordOf(k).data
                processed == u_points[k].processed_value
            IN /\ raw.kind = "number" =>
                     /\ processed.kind = "number"
                     /\ processed.n = raw.n * u_sensor.calibration_multiplier
                                        + u_sensor.calibration_offset
                     /\ (u_sensor.calibration_multiplier = 1
                           /\ u_sensor.calibration_offset = 0) => processed = raw
               /\ raw.kind = "null" => processed = NoValue

\* a sensor with multiplier 2 and offset -100 has calibrated the raw value
\* 101 to 102 and a null raw value to null
C22_Witness ==
    /\ u_pc = "returned"
    /\ u_sensor.calibration_multiplier = 2
    /\ Len(u_points) = 2
    /\ RecordOf(1).data = Number(101)
    /\ u_points[1].processed_value = Number(102)
    /\ RecordOf(2).data = NoValue
    /\ u_points[2].processed_value = NoValue

(***************************************************************************)
(* Properties of sync_latest_data                                          *)
(***************************************************************************)
\* the timestamps of the samples the runs fetched
FetchedTimestamps ==
    { l_syncs[p].api_data[1].timestamp :
        p \in { q \in SyncIds : l_syncs[q].api_data # << >> } }

\* once the runs have ended, the row and last_seen hold the newest sample
NewestWins ==
    ((\A p \in SyncIds : l_syncs[p].pc = "done") /\ FetchedTimestamps # {}) =>
        /\ l_latest # << >>
        /\ l_latest[1].timestamp = SetMax(FetchedTimestamps)
        /\ l_last_seen = SetMax(FetchedTimestamps)

\* no step lowers the stored timestamps
NeverDecreases ==
    /\ l_latest # << >> =>
          (l_latest' # << >> /\ l_latest'[1].timestamp >= l_latest[1].timestamp)
    /\ l_last_seen' >= l_last_seen

\* C16: when ingests for one sensor interleave, the LatestSensorValue row and
\* Sensor.last_seen end up holding the sample with the most recent timestamp,
\* whichever was written last, and the stored latest timestamp never
\* decreases.
C16_NewestTimestampWins ==
    []NewestWins /\ [][NeverDecreases]_vars

(***************************************************************************)
(* Properties of the aggregation jobs                                      *)
(***************************************************************************)
JobIds == 1..Len(j_jobs)

C18_JobExceptionMarksFailed ==
    j_run.kind \in {"aggregate_5min_data", "aggregate_hourly_data", "aggregate_daily_data"}
    => /\ \A k \in JobIds :
             j_log[k].thrown =>
                 /\ j_jobs[k].status = "failed"
                 /\ j_jobs[k].error_message = ErrorMessage
       /\ j_run.pc \in {"returned", "raised"} =>
             \A k \in JobIds : j_jobs[k].status # "running"

\* a change of status the life cycle allows
AllowedTransition(from, to) ==
    \/ from = "pending" /\ to = "running"
    \/ from = "running" /\ to \in {"completed", "failed"}

\* every job starts pending and every change of its status is allowed
LifeCycleStep ==
    \A k \in 1..Len(j_jobs') :
        IF k > Len(j_jobs)
        THEN j_jobs'[k].status = "pending"
        ELSE \/ j_jobs'[k].status = j_jobs[k].status
             \/ AllowedTransition(j_jobs[k].status, j_jobs'[k].status)

\* C19: the status of a job changes only along pending -> running ->
\* completed | failed: a job starts pending, completed and failed are never
\* left, and a failed job has a recorded error message.
C19_StatusLifeCycle ==
    /\ [][LifeCycleStep]_vars
    /\ [](\A k \in JobIds : j_jobs[k].status = "failed" =>
                                 j_jobs[k].error_message # "")

(***************************************************************************)
(* Properties of get_history_val                                           *)
(***************************************************************************)
\* the errors of a request that are not timeouts: an HTTP error status and
\* the malformed payloads
NonTimeoutErrors == {"http_error", "bad_json", "not_dict", "no_result"}

LastOutcome == g_history[Len(g_history)].kind

\* only a timed-out request is followed by another request, at most two
\* times, with one pause before every further request
OnlyTimeoutsRetried ==
    /\ \A i \in 1..(Len(g_history) - 1) : g_history[i].kind = "timeout"
    /\ Len(g_history) <= 1 + 2
    /\ g_pc = "returned" => g_sleeps = Len(g_history) - 1

\* C20: a timed-out request is retried up to 2 times with a pause between
\* the attempts and the call then returns an empty result; a request that
\* fails otherwise (HTTP error status, malformed payload) is not retried, and
\* the call returns an empty result that carries an error.
C20_RetryDiscipline ==
    /\ OnlyTimeoutsRetried
    /\ g_pc = "returned" =>
          /\ LastOutcome = "timeout" =>
                g_result.datetimes = << >> /\ g_result.values = << >>
          /\ LastOutcome \in NonTimeoutErrors =>
                /\ g_result.datetimes = << >> /\ g_result.values = << >>
                /\ g_result.error # << >>

(***************************************************************************)
(* Properties of the order of the tier aggregations                        *)
(***************************************************************************)
\* C21: a daily aggregation never starts before hourly aggregation has
\* completed for the whole of its day, and an hourly aggregation never
\* before the 5-minute aggregation of its whole window, in the scheduled
\* tasks and in the sequences of migrate_data and full_data_pipeline.
C21_FinerTierFirst ==
    \A r \in o_tasks :
        (r.tier \in {"hourly", "daily"} /\ r.st \in {"running", "done"}) => r.ready

(***************************************************************************)
(* Properties of the size of the aggregated series                         *)
(***************************************************************************)
\* C28: aggregate_sensor_data reduces data: it returns no more points than
\* it was given, for every series and interval, and it returns the input
\* unchanged when the input has fewer than 500 points.
C28_NeverMorePoints ==
    a_pc = "returned" =>
        /\ Len(a_out.values) <= Len(a_data.values)
        /\ Len(a_data.values) < 500 => a_out = a_data

(***************************************************************************)
(* Properties of the cache of get_history_val_optimized                    *)
(***************************************************************************)
\* what a call with the arguments of the last call returns on an empty cache
Uncached ==
    ComputeOptimized(SampledData(get_history_val(upstream), r_args.max_points),
                     upstream.range_days, r_args.aggregate)

\* C29: the cache of get_history_val_optimized is transparent: with the
\* upstream data unchanged, a call returns what a call with the same
\* arguments returns on an empty cache, whatever calls came before it, also
\* calls for the same sensor and dates with another max_points or aggregate
\* flag.
C29_CacheTransparent ==
    r_calls > 0 => r_result = Uncached

(***************************************************************************)
(* Properties of the point budget                                          *)
(***************************************************************************)
\* get_historical_data returns at most max_points values
HistoricalWithinBudget ==
    h_pc = "returned" => Len(h_values) <= h_max_points

\* a call of get_history_val_optimized that computed its result returns at
\* most max_points points
OptimizedWithinBudget ==
    (r_calls > 0 /\ ~r_hit) => Len(r_result.values) <= r_args.max_points

\* C23: max_points is the most points returned: for every number of stored
\* or fetched points get_historical_data returns at most max_points values
\* and get_history_val_optimized at most max_points points.
C23_AtMostMaxPoints ==
    HistoricalWithinBudget /\ OptimizedWithinBudget

(***************************************************************************)
(* Properties of determine_aggregation_interval                            *)
(***************************************************************************)
\* the interval is the one of the policy table
FollowsPolicyTable ==
    /\ p_days <= 3 => p_interval = (IF p_points > 2000 THEN 15 ELSE 5)
    /\ (3 < p_days /\ p_days <= 7) => p_interval = (IF p_points > 5000 THEN 30 ELSE 15)
    /\ (7 < p_days /\ p_days <= 31) =>
          /\ p_points > 10000 => p_interval = 60
          /\ (5000 < p_points /\ p_points <= 10000) => p_interval = 30
          /\ p_points <= 5000 => p_interval = 15
    /\ 31 < p_days => p_interval = (IF p_points > 10000 THEN 120 ELSE 60)

\* no longer range and no higher point count has a smaller interval
NeverFiner ==
    /\ \A days \in DayRanges :
          days >= p_days => determine_aggregation_interval(p_points, days) >= p_interval
    /\ \A points \in PointCounts :
          points >= p_points => determine_aggregation_interval(points, p_days) >= p_interval

\* C26: determine_aggregation_interval follows the policy table (up to 3
\* days: 15 above 2000 points, else 5; up to 7 days: 30 above 5000, else 15;
\* up to 31 days: 60 above 10000, 30 above 5000, else 15; longer: 120 above
\* 10000, else 60), so the interval never decreases when the range or the
\* point count grows.
C26_IntervalPolicy ==
    p_pc = "returned" => (FollowsPolicyTable /\ NeverFiner)

\* a range longer than 31 days with at most 10000 points got 60 minutes
C26_Witness ==
    /\ p_pc = "returned"
    /\ p_days = 32
    /\ p_points = 10000
    /\ p_interval = 60

(***************************************************************************)
(* Properties of the bucket timestamps                                     *)
(***************************************************************************)
\* the start of the 5-minute bucket of a time
SlotStart(t) == (t \div 5) * 5

\* C27: the timestamp of an aggregate row is the start of the bucket that
\* holds the finer records it aggregates, on their calendar date, also when
\* the window crosses midnight or spans several days.  Checked on the
\* 5-minute tier: every sample of the window has a row at the start of its
\* 5-minute slot and every row stands at the slot of a sample of the window.
C27_TimestampIsBucketStart ==
    w_pc = "returned" =>
        LET rows == InWindow(w_raw, ActiveSensors[1], w_start, w_end)
        IN /\ \A s \in rows :
                 \E x \in w_recent : x.timestamp = SlotStart(s.timestamp)
           /\ \A x \in w_recent :
                 \E s \in rows : SlotStart(s.timestamp) = x.timestamp

====
